---- MODULE Spec2Model ----
(***************************************************************************)
(* Screenplay export engine of liqid-build3: the direct-draw exporters of  *)
(* utils/pdfExport.ts (exportToStandardPDF, exportToEnhancedStandardPDF,   *)
(* renderStandardBlock), the flow backend PrintableScreenplay, and the     *)
(* word wrappers of the Thai support modules.                              *)
(*                                                                         *)
(* Lengths are in hundredths of a point (595.28pt is 59528).  A text is a  *)
(* sequence of characters; a character is one of                           *)
(*   "a","b"  Latin lowercase      "A","B"  Latin uppercase                *)
(*   "th"     a codepoint of the Thai block U+0E00-U+0E7F                  *)
(*   " "      whitespace           "zw"     a zero-width mark U+200B..D    *)
(*   "tab"    whitespace other than the space character                    *)
(*   "(", ")", ":"  the punctuation the flow backend adds                   *)
(*   "cm"     the combining acute accent U+0301                            *)
(*   "ac","Ac" the precomposed letters U+00E1 and U+00C1 (a, A with acute) *)
(* An optional number (sceneNumber?: number) is <<>> when undefined and    *)
(* <<n>> when it is n.                                                     *)
(***************************************************************************)
EXTENDS Integers, Sequences, FiniteSets, TLC

VARIABLES
    blocks,           \* Block[] handed to the exporters and to the flow backend
    phase,            \* which export loop is running
    i,                \* loop index of the running loop (1-based)
    y,                \* vertical cursor of the running direct-draw export
    page,             \* content page the direct-draw export is drawing on
    counters,         \* sceneNumber / dialogueNumber / transitionNumber
    processedBlocks,  \* exportToEnhancedStandardPDF: pre-processed items
    stdOut,           \* renderStandardBlock calls made by exportToStandardPDF
    enhOut,           \* renderStandardBlock calls made by exportToEnhancedStandardPDF
    flowOut,          \* elements returned by PrintableScreenplay.renderBlock
    call,             \* what the latest renderStandardBlock call drew
    arg,              \* input of the function or handler under check
    res               \* its result, or its state while it runs

vars == <<blocks, phase, i, y, page, counters, processedBlocks,
          stdOut, enhOut, flowOut, call, arg, res>>

exportVars == <<blocks, phase, i, y, page, counters, processedBlocks,
                stdOut, enhOut, flowOut, call>>

----------------------------------------------------------------------------
(* Bounds of the model *)

MaxBlocks == 3

MaxCalls == 2

MaxContent == 3

MaxWrapLen == 4

----------------------------------------------------------------------------
(* Page geometry, utils/pdfExport.ts *)

PAGE_HEIGHT == 84189

PAGE_WIDTH == 59528

MARGIN_LEFT == 8500

MARGIN_RIGHT == 6800

MARGIN_TOP == 6800

MARGIN_BOTTOM == 6800

CONTENT_WIDTH == PAGE_WIDTH - MARGIN_LEFT - MARGIN_RIGHT

LINE_HEIGHT == 1440

SCENE_NUMBER_X == 3000

BlockTypes ==
    {"scene-heading", "action", "character", "dialogue", "parenthetical",
     "transition", "shot", "text", "unknown"}

blockLayouts ==
    [t \in {"scene-heading", "action", "character", "dialogue",
            "parenthetical", "transition"} |->
        [marginLeft |-> CASE t = "character" -> 20000
                          [] t = "dialogue" -> 13000
                          [] t = "parenthetical" -> 16500
                          [] OTHER -> 0,
         indent     |-> 0,
         spaceAfter |-> IF t \in {"character", "parenthetical"} THEN 0 ELSE LINE_HEIGHT,
         uppercase  |-> t \in {"scene-heading", "character", "transition"},
         bold       |-> t = "scene-heading",
         rightAlign |-> t = "transition"]]

\* blockLayouts[blockType] || blockLayouts['action']
LayoutOf(blockType) ==
    IF blockType \in DOMAIN blockLayouts THEN blockLayouts[blockType]
    ELSE blockLayouts["action"]

\* layout module (utils/thai-pdf-test-data.ts lines 423-505)
FONT_SIZE == 1200

\* layoutConfig; an entry the table leaves out is "undefined" (<<>> for a
\* number)
layoutConfig ==
    [t \in {"scene-heading", "action", "character", "parenthetical",
            "dialogue", "transition", "shot", "text"} |->
        [indent        |-> CASE t = "character" -> 20000
                             [] t = "parenthetical" -> 16500
                             [] t = "dialogue" -> 13000
                             [] t = "transition" -> 40000
                             [] OTHER -> 0,
         fontStyle     |-> IF t \in {"scene-heading", "shot"} THEN "bold" ELSE "normal",
         textTransform |-> IF t \in {"scene-heading", "character", "transition", "shot"}
                           THEN "uppercase" ELSE "undefined",
         alignment     |-> IF t = "transition" THEN "right" ELSE "undefined",
         spaceBefore   |-> IF t = "scene-heading" THEN <<LINE_HEIGHT>> ELSE <<>>,
         spaceAfter    |-> IF t \in {"character", "parenthetical"} THEN 0 ELSE FONT_SIZE,
         maxWidth      |-> CASE t = "character" -> CONTENT_WIDTH - 20000
                             [] t = "parenthetical" -> CONTENT_WIDTH - 16500 - 5000
                             [] t = "dialogue" -> CONTENT_WIDTH - 13000 - 5000
                             [] OTHER -> CONTENT_WIDTH]]

\* layoutConfig[blockType] || layoutConfig['text']
getLayoutForBlockType(blockType) ==
    IF blockType \in DOMAIN layoutConfig THEN layoutConfig[blockType]
    ELSE layoutConfig["text"]

----------------------------------------------------------------------------
(* Text primitives *)

Latin == {"a", "b", "A", "B"}

\* \s: the space and the tab
IsSpace(c) == c \in {" ", "tab"}

\* String.prototype.toUpperCase
toUpperCase(text) ==
    [k \in 1..Len(text) |->
        CASE text[k] = "a" -> "A" [] text[k] = "b" -> "B" [] OTHER -> text[k]]

\* thaiRegex = /[\u0E00-\u0E7F]/; thaiRegex.test(text)
containsThaiText(text) == \E k \in 1..Len(text) : text[k] = "th"

RECURSIVE RemoveZeroWidth(_)
RemoveZeroWidth(text) ==
    IF text = <<>> THEN <<>>
    ELSE IF Head(text) = "zw" THEN RemoveZeroWidth(Tail(text))
         ELSE <<Head(text)>> \o RemoveZeroWidth(Tail(text))

\* text.replace(/\s+/g, ' ')
RECURSIVE CollapseSpaces(_)
CollapseSpaces(text) ==
    IF text = <<>> THEN <<>>
    ELSE IF IsSpace(Head(text)) /\ Len(text) > 1 /\ IsSpace(text[2])
         THEN CollapseSpaces(Tail(text))
         ELSE <<Head(text)>> \o CollapseSpaces(Tail(text))

RECURSIVE TrimLeft(_)
TrimLeft(text) ==
    IF text # <<>> /\ IsSpace(Head(text)) THEN TrimLeft(Tail(text)) ELSE text

RECURSIVE TrimRight(_)
TrimRight(text) ==
    IF text # <<>> /\ IsSpace(text[Len(text)])
    THEN TrimRight(SubSeq(text, 1, Len(text) - 1)) ELSE text

\* String.prototype.trim
Trim(text) == TrimRight(TrimLeft(text))

\* text.normalize('NFC'): a starter followed by the combining acute composes
\* when a precomposed letter exists (a, A); b has none; whitespace, Thai
\* letters and zero-width marks are starters that compose with nothing, so
\* a mark behind one of them stays as it is
RECURSIVE Nfc(_)
Nfc(text) ==
    IF text = <<>> THEN <<>>
    ELSE IF Len(text) > 1 /\ Head(text) \in {"a", "A"} /\ text[2] = "cm"
         THEN <<IF Head(text) = "a" THEN "ac" ELSE "Ac">> \o Nfc(SubSeq(text, 3, Len(text)))
         ELSE <<Head(text)>> \o Nfc(Tail(text))

\* thai-pdf-support-simple normalizeThaiText
SimpleNormalizeThaiText(text) ==
    LET normalized == Nfc(text)
    IN  IF containsThaiText(normalized)
        THEN Trim(CollapseSpaces(RemoveZeroWidth(normalized)))
        ELSE normalized

\* text.replace(/(P)(Q)/g, '$1 $2'), P and Q being [a-zA-Z0-9] (a Latin
\* character) and [\u0E01-\u0E59] (a Thai letter) in either order: a
\* match consumes both characters
RECURSIVE InsertSpace(_, _)
InsertSpace(text, latinFirst) ==
    IF Len(text) < 2 THEN text
    ELSE IF \/ latinFirst /\ text[1] \in Latin /\ text[2] = "th"
            \/ ~latinFirst /\ text[1] = "th" /\ text[2] \in Latin
         THEN <<text[1], " ", text[2]>> \o InsertSpace(SubSeq(text, 3, Len(text)), latinFirst)
         ELSE <<Head(text)>> \o InsertSpace(Tail(text), latinFirst)

\* thai-pdf-support-sharp normalizeThaiText
SharpNormalizeThaiText(text) ==
    LET normalized == Nfc(text)
    IN  IF containsThaiText(normalized)
        THEN Trim(CollapseSpaces(InsertSpace(InsertSpace(RemoveZeroWidth(normalized), TRUE), FALSE)))
        ELSE normalized

\* thai-pdf-support-simple convertThaiTextForPDF: the UTF-8 encode/decode
\* round trip returns the same well-formed string
SimpleConvertThaiTextForPDF(text) ==
    IF ~containsThaiText(text) THEN text ELSE SimpleNormalizeThaiText(text)

\* thai-pdf-support-simple processTextForPDF
SimpleProcessTextForPDF(text) == SimpleConvertThaiTextForPDF(text)

\* a line height of zero
getLineHeightZero(text) == 0

\* thai-pdf-support-simple getLineHeight: 14.4 * 1.1 for Thai, else 14.4
getLineHeight(text) ==
    IF containsThaiText(text) THEN (LINE_HEIGHT * 11) \div 10 ELSE LINE_HEIGHT

----------------------------------------------------------------------------
(* renderStandardBlock, utils/pdfExport.ts *)

\* RenderText without the containsThaiText test of line 145
RenderTextAlwaysUpper(block) ==
    IF LayoutOf(block.type).uppercase
    THEN toUpperCase(SimpleProcessTextForPDF(block.content))
    ELSE SimpleProcessTextForPDF(block.content)

\* lines 142-147: the text of the block after processing and case transform
RenderText(block) ==
    LET text == SimpleProcessTextForPDF(block.content)
    IN  IF LayoutOf(block.type).uppercase /\ ~containsThaiText(text)
        THEN toUpperCase(text) ELSE text

\* thai-pdf-support-simple addThaiText: the text handed to pdf.text for a line
AddThaiTextDrawn(line) == SimpleProcessTextForPDF(line)

\* NeedsPageBreak with the bottom margin left out of the test
NeedsPageBreakNoMargin(cy, lineHeight) == cy > PAGE_HEIGHT - lineHeight

\* a page-break test that leaves the height of the line out
NeedsPageBreakAtBottom(cy, lineHeight) == cy > PAGE_HEIGHT - MARGIN_BOTTOM

\* line 185: if (y > PAGE_HEIGHT - MARGIN_BOTTOM - lineHeight)
NeedsPageBreak(cy, lineHeight) == cy > PAGE_HEIGHT - MARGIN_BOTTOM - lineHeight

\* lines 171-178: the scene number is drawn before the line loop, at the y
\* the block was entered with
SceneNumberDraw(blockType, sceneNumber, cy, cpage) ==
    IF blockType = "scene-heading" /\ sceneNumber # <<>>
    THEN <<[kind |-> "scene", num |-> sceneNumber[1], idx |-> 0,
            page |-> cpage, y |-> cy]>>
    ELSE <<>>

\* lines 201-218: dialogue / transition number on the last line only
NumberDraw(kind, blockType, number, k, n, cy, cpage) ==
    IF blockType = kind /\ number # <<>> /\ k = n
    THEN <<[kind |-> kind, num |-> number[1], idx |-> k,
            page |-> cpage, y |-> cy]>>
    ELSE <<>>

\* lines 190-218: a line is drawn and, on the last line, the number label
DrawLine(k, n, ly, lp, blockType, dialogueNumber, transitionNumber) ==
    <<[kind |-> "line", num |-> 0, idx |-> k, page |-> lp, y |-> ly]>>
    \o NumberDraw("dialogue", blockType, dialogueNumber, k, n, ly, lp)
    \o NumberDraw("transition", blockType, transitionNumber, k, n, ly, lp)

\* lines 181-221: the line loop from line k on, with cursor cy on page cpage
\* and draws drawn so far; the result is the cursor, the page and the draws
\* after the last line
RECURSIVE RenderLines(_, _, _, _, _, _, _, _, _)
RenderLines(k, n, cy, cpage, draws, lineHeight, blockType, dialogueNumber, transitionNumber) ==
    IF k > n THEN [y |-> cy, page |-> cpage, draws |-> draws]
    ELSE IF NeedsPageBreak(cy, lineHeight)
         THEN \* pdf.addPage(); y = MARGIN_TOP; the line is drawn; y += lineHeight
              RenderLines(k + 1, n, MARGIN_TOP + lineHeight, cpage + 1,
                          draws \o DrawLine(k, n, MARGIN_TOP, cpage + 1, blockType,
                                            dialogueNumber, transitionNumber),
                          lineHeight, blockType, dialogueNumber, transitionNumber)
         ELSE RenderLines(k + 1, n, cy + lineHeight, cpage,
                          draws \o DrawLine(k, n, cy, cpage, blockType,
                                            dialogueNumber, transitionNumber),
                          lineHeight, blockType, dialogueNumber, transitionNumber)

\* renderStandardBlock(pdf, block, y, sceneNumber, dialogueNumber,
\* transitionNumber); nLines is the number of lines the splitter returned
\* for the text, cpage the page the pdf is on
renderStandardBlock(block, cy, cpage, sceneNumber, dialogueNumber, transitionNumber, nLines) ==
    LET blockType  == block.type
        layout     == LayoutOf(blockType)
        text       == RenderText(block)
        lineHeight == getLineHeight(text)
        scene      == SceneNumberDraw(blockType, sceneNumber, cy, cpage)
        end        == RenderLines(1, nLines, cy, cpage, scene, lineHeight,
                                  blockType, dialogueNumber, transitionNumber)
    IN  [y |-> end.y + layout.spaceAfter, page |-> end.page,
         type |-> blockType, text |-> text, lineHeight |-> lineHeight,
         nLines |-> nLines, y0 |-> cy, page0 |-> cpage,
         draws |-> end.draws]

\* The record kept of one renderStandardBlock call
CallRecord(at, block, sceneNumber, dialogueNumber, transitionNumber) ==
    [at |-> at, block |-> block, scene |-> sceneNumber,
     dialogue |-> dialogueNumber, transition |-> transitionNumber]

NoCall == [y |-> MARGIN_TOP, page |-> 1, type |-> "none", text |-> <<>>,
           lineHeight |-> LINE_HEIGHT, nLines |-> 0, y0 |-> MARGIN_TOP,
           page0 |-> 1, draws |-> <<>>]

\* thai-pdf-support-simple splitThaiTextToSize on a text narrower than
\* maxWidth: pdf.splitTextToSize returns the processed text as its one line.
\* The texts it is applied to are at most 2 * MaxContent + 1 characters,
\* far narrower than any maxWidth of the layout table (at least 242.28pt)
splitShortText(text) == <<SimpleProcessTextForPDF(text)>>

----------------------------------------------------------------------------
(* handleParentheticalDialogue, utils/pdfExport.ts lines 228-253 *)

\* handleParentheticalDialogue without the test of the next block's type
handleParentheticalAnyNext(bs, index) ==
    IF bs[index].type = "parenthetical" /\ index + 1 <= Len(bs)
    THEN [combinedBlock |->
             <<[id |-> bs[index + 1].id, type |-> "dialogue",
                content |-> bs[index].content \o <<" ">> \o bs[index + 1].content]>>,
          skipNext |-> TRUE, blocks |-> bs]
    ELSE [combinedBlock |-> <<>>, skipNext |-> FALSE, blocks |-> bs]

\* handleParentheticalDialogue that writes the combined content into
\* nextBlock and returns nextBlock itself instead of a new object
handleParentheticalInPlace(bs, index) ==
    IF bs[index].type = "parenthetical"
       /\ index + 1 <= Len(bs) /\ bs[index + 1].type = "dialogue"
    THEN LET written == [bs EXCEPT ![index + 1].content =
                                bs[index].content \o <<" ">> \o bs[index + 1].content]
         IN  [combinedBlock |-> <<written[index + 1]>>, skipNext |-> TRUE,
              blocks |-> written]
    ELSE [combinedBlock |-> <<>>, skipNext |-> FALSE, blocks |-> bs]

\* The field blocks of the result is the input array as the call leaves it:
\* the function reads currentBlock and nextBlock and assigns to neither, the
\* combined block being an object literal that spreads nextBlock
handleParentheticalDialogue(bs, index) ==
    LET currentBlock == bs[index]
    IN  IF currentBlock.type = "parenthetical"
           /\ index + 1 <= Len(bs) /\ bs[index + 1].type = "dialogue"
        THEN [combinedBlock |->
                 <<[id |-> bs[index + 1].id, type |-> "dialogue",
                    content |-> currentBlock.content \o <<" ">> \o bs[index + 1].content]>>,
              skipNext |-> TRUE, blocks |-> bs]
        ELSE [combinedBlock |-> <<>>, skipNext |-> FALSE, blocks |-> bs]

ZeroCounters == [scene |-> 0, dialogue |-> 0, transition |-> 0]

\* CountBlock whose transition branch increments the dialogue counter
CountBlockWrongCounter(c, blockType) ==
    IF blockType = "scene-heading" THEN [c EXCEPT !.scene = @ + 1]
    ELSE IF blockType = "dialogue" THEN [c EXCEPT !.dialogue = @ + 1]
    ELSE IF blockType = "transition" THEN [c EXCEPT !.dialogue = @ + 1]
    ELSE c

\* lines 323-329: the counter of the block's own type is incremented
CountBlock(c, blockType) ==
    IF blockType = "scene-heading" THEN [c EXCEPT !.scene = @ + 1]
    ELSE IF blockType = "dialogue" THEN [c EXCEPT !.dialogue = @ + 1]
    ELSE IF blockType = "transition" THEN [c EXCEPT !.transition = @ + 1]
    ELSE c

\* block.type === T ? counter : undefined
NumberFor(kind, blockType, n) == IF blockType = kind THEN <<n>> ELSE <<>>

----------------------------------------------------------------------------
(* exportToStandardPDF, utils/pdfExport.ts lines 292-340 *)

\* one iteration of the block loop that takes the combined-block branch
StdMergedIteration ==
    /\ phase = "standard"
    /\ i <= Len(blocks)
    /\ handleParentheticalDialogue(blocks, i).combinedBlock # <<>>
    /\ LET combinedBlock == handleParentheticalDialogue(blocks, i).combinedBlock[1]
           c == IF combinedBlock.type = "dialogue"
                THEN [counters EXCEPT !.dialogue = @ + 1] ELSE counters
           r == renderStandardBlock(combinedBlock, y, page, <<>>,
                                    <<c.dialogue>>, <<>>,
                                    Len(splitShortText(RenderText(combinedBlock))))
       IN  /\ counters' = c
           /\ call' = r
           /\ y' = call'.y
           /\ page' = call'.page
           /\ stdOut' = Append(stdOut,
                   CallRecord(i, combinedBlock, <<>>, <<c.dialogue>>, <<>>))
    /\ blocks' = handleParentheticalDialogue(blocks, i).blocks
    /\ i' = i + 2
    /\ UNCHANGED <<phase, processedBlocks, enhOut, flowOut, arg, res>>

\* one iteration of the block loop on a block that is not combined
StdPlainIteration ==
    /\ phase = "standard"
    /\ i <= Len(blocks)
    /\ handleParentheticalDialogue(blocks, i).combinedBlock = <<>>
    /\ LET block == blocks[i]
           c  == CountBlock(counters, block.type)
           sn == NumberFor("scene-heading", block.type, c.scene)
           dn == NumberFor("dialogue", block.type, c.dialogue)
           tn == NumberFor("transition", block.type, c.transition)
           r  == renderStandardBlock(block, y, page, sn, dn, tn,
                                     Len(splitShortText(RenderText(block))))
       IN  /\ counters' = c
           /\ call' = r
           /\ y' = call'.y
           /\ page' = call'.page
           /\ stdOut' = Append(stdOut, CallRecord(i, block, sn, dn, tn))
    /\ blocks' = handleParentheticalDialogue(blocks, i).blocks
    /\ i' = i + 1
    /\ UNCHANGED <<phase, processedBlocks, enhOut, flowOut, arg, res>>

\* the loop is over and the pdf is saved; exportToEnhancedStandardPDF is then
\* called on the same blocks and sets up its locals (lines 396-404)
StdFinish ==
    /\ phase = "standard"
    /\ i > Len(blocks)
    /\ phase' = "enhancedPre"
    /\ i' = 1
    /\ y' = MARGIN_TOP
    /\ page' = 1
    /\ counters' = ZeroCounters
    /\ processedBlocks' = <<>>
    /\ call' = NoCall
    /\ UNCHANGED <<blocks, stdOut, enhOut, flowOut, arg, res>>

----------------------------------------------------------------------------
(* exportToEnhancedStandardPDF, utils/pdfExport.ts lines 396-458 *)

\* lines 410-412
EnhCount(c, blockType) ==
    LET c1 == IF blockType = "scene-heading" THEN [c EXCEPT !.scene = @ + 1] ELSE c
        c2 == IF blockType = "dialogue" THEN [c1 EXCEPT !.dialogue = @ + 1] ELSE c1
    IN  IF blockType = "transition" THEN [c2 EXCEPT !.transition = @ + 1] ELSE c2

\* lines 415-435: a parenthetical followed by a dialogue is combined
\* the test of the next block without `i + 1 < blocks.length`: reading
\* .type of blocks[blocks.length], which is undefined, raises a TypeError
EnhNextIsDialogueUnguarded(bs, index) ==
    IF index + 1 > Len(bs) THEN "TypeError"
    ELSE IF bs[index + 1].type = "dialogue" THEN "true" ELSE "false"

\* lines 416-417: i + 1 < blocks.length && blocks[i + 1].type === 'dialogue'
EnhNextIsDialogue(bs, index) ==
    IF index + 1 <= Len(bs) /\ bs[index + 1].type = "dialogue" THEN "true"
    ELSE "false"

EnhPreMerged ==
    /\ phase = "enhancedPre"
    /\ i <= Len(blocks)
    /\ blocks[i].type = "parenthetical"
    /\ EnhNextIsDialogue(blocks, i) = "true"
    /\ LET block == blocks[i]
           c == EnhCount(counters, block.type)
           dialogueBlock == blocks[i + 1]
           combined == [id |-> dialogueBlock.id, type |-> dialogueBlock.type,
                        content |-> block.content \o <<" ">> \o dialogueBlock.content]
       IN  /\ counters' = c
           /\ processedBlocks' = Append(processedBlocks,
                   CallRecord(i, combined, <<>>, <<c.dialogue>>, <<>>))
    /\ i' = i + 2
    /\ UNCHANGED <<blocks, phase, y, page, stdOut, enhOut, flowOut, call, arg, res>>

\* lines 436-445
EnhPrePlain ==
    /\ phase = "enhancedPre"
    /\ i <= Len(blocks)
    /\ ~(/\ blocks[i].type = "parenthetical"
         /\ EnhNextIsDialogue(blocks, i) = "true")
    /\ LET block == blocks[i]
           c == EnhCount(counters, block.type)
       IN  IF block.type = "parenthetical" /\ EnhNextIsDialogue(blocks, i) = "TypeError"
           THEN \* the error reaches the catch block of line 468, which rethrows
                /\ counters' = c
                /\ phase' = "raised"
                /\ UNCHANGED <<processedBlocks, i>>
           ELSE /\ counters' = c
                /\ processedBlocks' = Append(processedBlocks,
                        CallRecord(i, block,
                                   NumberFor("scene-heading", block.type, c.scene),
                                   NumberFor("dialogue", block.type, c.dialogue),
                                   NumberFor("transition", block.type, c.transition)))
                /\ i' = i + 1
                /\ UNCHANGED phase
    /\ UNCHANGED <<blocks, y, page, stdOut, enhOut, flowOut, call, arg, res>>

\* the pre-processing loop is over; the render loop of line 449 starts
EnhPreFinish ==
    /\ phase = "enhancedPre"
    /\ i > Len(blocks)
    /\ phase' = "enhancedRender"
    /\ i' = 1
    /\ UNCHANGED <<blocks, y, page, counters, processedBlocks, stdOut, enhOut,
                   flowOut, call, arg, res>>

\* lines 449-458: one item of processedBlocks is rendered
EnhRenderItem ==
    /\ phase = "enhancedRender"
    /\ i <= Len(processedBlocks)
    /\ LET item == processedBlocks[i]
           r == renderStandardBlock(item.block, y, page, item.scene,
                                    item.dialogue, item.transition,
                                    Len(splitShortText(RenderText(item.block))))
       IN  /\ call' = r
           /\ y' = call'.y
           /\ page' = call'.page
           /\ enhOut' = Append(enhOut, item)
    /\ i' = i + 1
    /\ UNCHANGED <<blocks, phase, counters, processedBlocks, stdOut, flowOut, arg, res>>

FlowStart == [scene |-> 1, dialogue |-> 1, transition |-> 0]

\* the render loop is over and the pdf is saved; PrintableScreenplay, which
\* ReactToPrintExporter mounts with the same blocks, renders (lines 24-26)
EnhFinish ==
    /\ phase = "enhancedRender"
    /\ i > Len(processedBlocks)
    /\ phase' = "flow"
    /\ i' = 1
    /\ counters' = FlowStart
    /\ call' = NoCall
    /\ UNCHANGED <<blocks, y, page, processedBlocks, stdOut, enhOut, flowOut, arg, res>>

----------------------------------------------------------------------------
(* PrintableScreenplay.renderBlock, components/screenplay/PrintableScreenplay.tsx *)

\* the text content of the element renderBlock returns for the block; lines
\* 91-95: a transition ends with a colon
FlowText(block) ==
    LET upper == toUpperCase(block.content)
        withColon == IF upper # <<>> /\ upper[Len(upper)] = ":" THEN upper
                     ELSE upper \o <<":">>
    IN
    CASE block.type \in {"scene-heading", "character", "shot"} -> toUpperCase(block.content)
      [] block.type = "parenthetical" -> <<"(">> \o block.content \o <<")">>
      [] block.type = "transition" -> withColon
      [] OTHER -> block.content

\* lines 28-106: one call of renderBlock from blocks.map (line 132); the
\* post-incremented sceneNumber / dialogNumber are the numbers shown
FlowRenderBlock ==
    /\ phase = "flow"
    /\ i <= Len(blocks)
    /\ LET block == blocks[i]
           sn == IF block.type = "scene-heading" THEN <<counters.scene>> ELSE <<>>
           dn == IF block.type = "dialogue" THEN <<counters.dialogue>> ELSE <<>>
       IN  /\ flowOut' = Append(flowOut,
                   [at |-> i, type |-> block.type, text |-> FlowText(block),
                    scene |-> sn, dialogue |-> dn])
           /\ counters' = [counters EXCEPT
                   !.scene = IF block.type = "scene-heading" THEN @ + 1 ELSE @,
                   !.dialogue = IF block.type = "dialogue" THEN @ + 1 ELSE @]
    /\ i' = i + 1
    /\ UNCHANGED <<blocks, phase, y, page, processedBlocks, stdOut, enhOut, call, arg, res>>

\* blocks.map has visited every block
FlowFinish ==
    /\ phase = "flow"
    /\ i > Len(blocks)
    /\ phase' = "done"
    /\ UNCHANGED <<blocks, i, y, page, counters, processedBlocks, stdOut, enhOut,
                   flowOut, call, arg, res>>

----------------------------------------------------------------------------
(* Spec: the three backends run one after the other on the same blocks *)

\* the block sequence of n blocks with types ty; in the contents a Latin
\* and a Thai content alternate, starting with either (first 0, 1), or an
\* empty and a whitespace-only content alternate (first 2)
BlockSeq(n, ty, first) ==
    [k \in 1..n |->
        [id |-> k, type |-> ty[k],
         content |-> IF first = 2 THEN (IF k % 2 = 1 THEN <<>> ELSE <<" ">>)
                     ELSE IF (k + first) % 2 = 0 THEN <<"a">> ELSE <<"th">>]]

NoArg == [fn |-> "none"]

Init ==
    /\ \E n \in 0..MaxBlocks : \E ty \in [1..n -> BlockTypes], first \in {0, 1, 2} :
          blocks = BlockSeq(n, ty, first)
    /\ phase = "standard"
    /\ i = 1
    /\ y = MARGIN_TOP
    /\ page = 1
    /\ counters = ZeroCounters
    /\ processedBlocks = <<>>
    /\ stdOut = <<>>
    /\ enhOut = <<>>
    /\ flowOut = <<>>
    /\ call = NoCall
    /\ arg = NoArg
    /\ res = NoArg

Next ==
    \/ StdMergedIteration
    \/ StdPlainIteration
    \/ StdFinish
    \/ EnhPreMerged
    \/ EnhPrePlain
    \/ EnhPreFinish
    \/ EnhRenderItem
    \/ EnhFinish
    \/ FlowRenderBlock
    \/ FlowFinish

Spec == Init /\ [][Next]_vars

----------------------------------------------------------------------------
(* SpecPage: exportToStandardPDF paginating a block sequence whose texts   *)
(* wrap to several lines.  The blocks are supplied one iteration at a time *)
(* and the number of lines pdf.splitTextToSize returns for a text is any   *)
(* of LineCounts; a combined parenthetical+dialogue block takes the same   *)
(* path as a dialogue block.                                               *)

LineCounts == {0, 1, 48}

\* an empty or whitespace-only text has no words to wrap: the splitter
\* gives no line or one for it
\* lines 297-340: one iteration of the block loop
PageIteration ==
    /\ phase = "paginate"
    /\ i <= MaxCalls
    /\ \E ty \in {"scene-heading", "dialogue", "transition", "character",
                   "action"},
          content \in {<<"a">>, <<"th">>, <<>>, <<" ">>} :
       \E n \in (IF Trim(content) = <<>> THEN LineCounts \cap {0, 1}
                  ELSE LineCounts) :
          LET block == [id |-> i, type |-> ty, content |-> content]
              c  == CountBlock(counters, block.type)
              sn == NumberFor("scene-heading", block.type, c.scene)
              dn == NumberFor("dialogue", block.type, c.dialogue)
              tn == NumberFor("transition", block.type, c.transition)
              r  == renderStandardBlock(block, y, page, sn, dn, tn, n)
          IN  /\ counters' = c
              /\ call' = r
              /\ y' = call'.y
              /\ page' = call'.page
              /\ stdOut' = Append(stdOut, call')
    /\ i' = i + 1
    /\ UNCHANGED <<blocks, phase, processedBlocks, enhOut, flowOut, arg, res>>

InitPage ==
    /\ blocks = <<>>
    /\ phase = "paginate"
    /\ i = 1
    /\ y = MARGIN_TOP
    /\ page = 1
    /\ counters = ZeroCounters
    /\ processedBlocks = <<>>
    /\ stdOut = <<>>
    /\ enhOut = <<>>
    /\ flowOut = <<>>
    /\ call = NoCall
    /\ arg = NoArg
    /\ res = NoArg

NextPage == PageIteration

SpecPage == InitPage /\ [][NextPage]_vars

----------------------------------------------------------------------------
(* SpecCase: the case transform of the two backends on one block *)

TextsUpTo(alphabet, n) == UNION {[1..m -> alphabet] : m \in 0..n}

\* renderStandardBlock on a single short block: the text pdf.text receives
CaseRenderStandard ==
    /\ res = NoArg
    /\ res' = [fn |-> "renderStandardBlock",
               text |-> AddThaiTextDrawn(splitShortText(RenderText(arg))[1])]
    /\ UNCHANGED <<exportVars, arg>>

\* PrintableScreenplay.renderBlock on the block: the text of the element
CaseRenderFlow ==
    /\ res = NoArg
    /\ res' = [fn |-> "renderBlock", text |-> FlowText(arg)]
    /\ UNCHANGED <<exportVars, arg>>

\* renderStandardBlock lines 139-140: the layout the block is drawn with,
\* and whether the table has an entry of the block's own type
CaseLayoutStandard ==
    /\ res = NoArg
    /\ res' = [fn |-> "blockLayouts", own |-> arg.type \in DOMAIN blockLayouts,
               layout |-> LayoutOf(arg.type)]
    /\ UNCHANGED <<exportVars, arg>>

\* getLayoutForBlockType(block.type)
CaseLayoutConfig ==
    /\ res = NoArg
    /\ res' = [fn |-> "getLayoutForBlockType", own |-> arg.type \in DOMAIN layoutConfig,
               layout |-> getLayoutForBlockType(arg.type)]
    /\ UNCHANGED <<exportVars, arg>>

IdleExport ==
    /\ blocks = <<>>
    /\ phase = "done"
    /\ i = 1
    /\ y = MARGIN_TOP
    /\ page = 1
    /\ counters = ZeroCounters
    /\ processedBlocks = <<>>
    /\ stdOut = <<>>
    /\ enhOut = <<>>
    /\ flowOut = <<>>
    /\ call = NoCall

InitCase ==
    /\ IdleExport
    /\ arg \in [id : {1}, type : BlockTypes, content : TextsUpTo({"a", "A", "th", " "}, MaxContent)]
    /\ res = NoArg

NextCase ==
    \/ CaseRenderStandard
    \/ CaseRenderFlow
    \/ CaseLayoutStandard
    \/ CaseLayoutConfig

SpecCase == InitCase /\ [][NextCase]_vars

----------------------------------------------------------------------------
(* SpecNorm: normalizeThaiText of the two support modules, applied to a    *)
(* text and then to its own result                                         *)

MaxNormLen == 4

NormalizeWith(fn, text) ==
    IF fn = "simpleNormalize" THEN SimpleNormalizeThaiText(text)
    ELSE SharpNormalizeThaiText(text)

\* normalizeThaiText(text)
NormOnce ==
    /\ res = NoArg
    /\ \E fn \in {"simpleNormalize", "sharpNormalize"} :
          res' = [fn |-> fn, n |-> 1, prev |-> arg, out |-> NormalizeWith(fn, arg)]
    /\ UNCHANGED <<exportVars, arg>>

\* normalizeThaiText(normalizeThaiText(text))
NormAgain ==
    /\ res # NoArg
    /\ res.n = 1
    /\ res' = [fn |-> res.fn, n |-> 2, prev |-> res.out, out |-> NormalizeWith(res.fn, res.out)]
    /\ UNCHANGED <<exportVars, arg>>

InitNorm ==
    /\ IdleExport
    /\ arg \in TextsUpTo({"a", "cm", "zw", "th", " ", "tab"}, MaxNormLen)
    /\ res = NoArg

NextNorm == NormOnce \/ NormAgain

SpecNorm == InitNorm /\ [][NextNorm]_vars

----------------------------------------------------------------------------
(* SpecAlert: exportToPDF of the sharp pdfExport module and its two        *)
(* callers, exportScreenplayToPDF (same module) and                        *)
(* ThaiPDFExportButton.handleExport.  res is the state of the running      *)
(* call: pc its position, alerts the alert() calls made, indicators the    *)
(* loading indicators in document.body (by the function that appended      *)
(* them, in document order), step the blocks exportToPDF has drawn.        *)

AlertIdle ==
    [fn |-> "export", pc |-> "idle", alerts |-> 0, indicators |-> <<>>,
     isExporting |-> FALSE, step |-> 0, outcome |-> "none"]

\* document.querySelector(...) followed by parentNode.removeChild: the first
\* indicator of the document, if there is one, is removed
RemoveFirstIndicator(indicators) ==
    IF indicators = <<>> THEN <<>> ELSE Tail(indicators)

\* document.body.removeChild(loadingIndicator) of the function named owner
RemoveOwnIndicator(indicators, owner) ==
    SelectSeq(indicators, LAMBDA o : o # owner)

\* exportScreenplayToPDF lines 238-273 up to the call of exportToPDF: the
\* indicator is appended; blocks that are not an array make it throw
ScreenplayStart ==
    /\ arg.caller = "exportScreenplayToPDF"
    /\ res.pc = "idle"
    /\ res' = [res EXCEPT !.indicators = Append(@, "exportScreenplayToPDF"),
                          !.pc = IF arg.blocksOk THEN "call" ELSE "callerCatch"]
    /\ UNCHANGED <<exportVars, arg>>

\* handleExport lines 32-41 up to the call of exportToPDF
HandleExportStart ==
    /\ arg.caller = "handleExport"
    /\ res.pc = "idle"
    /\ ~res.isExporting
    /\ res' = [res EXCEPT !.isExporting = TRUE, !.pc = "call"]
    /\ UNCHANGED <<exportVars, arg>>

\* exportToPDF lines 80-126: the indicator is appended and the document is
\* set up; a call of the PDF library may throw
ExportBegin ==
    /\ res.pc = "call"
    /\ \E ok \in BOOLEAN :
          res' = [res EXCEPT !.indicators = Append(@, "exportToPDF"),
                             !.pc = IF ok THEN "blocks" ELSE "exportCatch"]
    /\ UNCHANGED <<exportVars, arg>>

\* exportToPDF lines 129-196: one block of the loop is drawn, or a call of
\* the PDF library throws
ExportBlock ==
    /\ res.pc = "blocks"
    /\ res.step < arg.nBlocks
    /\ \E ok \in BOOLEAN :
          res' = [res EXCEPT !.step = @ + 1,
                             !.pc = IF ok THEN "blocks" ELSE "exportCatch"]
    /\ UNCHANGED <<exportVars, arg>>

\* exportToPDF lines 198-210: pdf.save and the removal of the indicator
ExportSave ==
    /\ res.pc = "blocks"
    /\ res.step = arg.nBlocks
    /\ \E ok \in BOOLEAN :
          res' = IF ok
                 THEN [res EXCEPT !.indicators = RemoveOwnIndicator(@, "exportToPDF"),
                                  !.pc = "returned"]
                 ELSE [res EXCEPT !.pc = "exportCatch"]
    /\ UNCHANGED <<exportVars, arg>>

\* exportToPDF lines 212-224: the catch block alerts and rethrows
ExportCatch ==
    /\ res.pc = "exportCatch"
    /\ res' = [res EXCEPT !.indicators = RemoveFirstIndicator(@),
                          !.alerts = @ + 1,
                          !.pc = "callerCatch"]
    /\ UNCHANGED <<exportVars, arg>>

\* the caller after exportToPDF returned: exportScreenplayToPDF line 274,
\* handleExport lines 43 and 47-49
CallerReturn ==
    /\ res.pc = "returned"
    /\ res' = IF arg.caller = "exportScreenplayToPDF"
              THEN [res EXCEPT !.indicators = RemoveOwnIndicator(@, "exportScreenplayToPDF"),
                               !.pc = "done", !.outcome = "exported"]
              ELSE [res EXCEPT !.isExporting = FALSE,
                               !.pc = "done", !.outcome = "exported"]
    /\ UNCHANGED <<exportVars, arg>>

\* the caller's catch block: exportScreenplayToPDF lines 275-286,
\* handleExport lines 44-49
CallerCatch ==
    /\ res.pc = "callerCatch"
    /\ res' = IF arg.caller = "exportScreenplayToPDF"
              THEN [res EXCEPT !.indicators = RemoveFirstIndicator(@),
                               !.alerts = @ + 1,
                               !.pc = "done", !.outcome = "failed"]
              ELSE [res EXCEPT !.alerts = @ + 1, !.isExporting = FALSE,
                               !.pc = "done", !.outcome = "failed"]
    /\ UNCHANGED <<exportVars, arg>>

InitAlert ==
    /\ IdleExport
    /\ arg \in [caller : {"exportScreenplayToPDF", "handleExport"},
                 nBlocks : 0..MaxBlocks, blocksOk : BOOLEAN]
    /\ arg.caller = "handleExport" => arg.blocksOk
    /\ res = AlertIdle

NextAlert ==
    \/ ScreenplayStart
    \/ HandleExportStart
    \/ ExportBegin
    \/ ExportBlock
    \/ ExportSave
    \/ ExportCatch
    \/ CallerReturn
    \/ CallerCatch

SpecAlert == InitAlert /\ [][NextAlert]_vars

----------------------------------------------------------------------------
(* SpecPos: validateTextPosition and addThaiText of the sharp support      *)
(* module (utils/thai-pdf-test-data.ts lines 662-706)                      *)

\* validateTextPosition; its local PAGE_WIDTH, PAGE_HEIGHT, MARGIN_RIGHT and
\* MARGIN_BOTTOM have the values of the module constants, the left bound is
\* the literal 68
validateTextPosition(x, py, textWidth) ==
    LET overRight == x + textWidth > PAGE_WIDTH - MARGIN_RIGHT
        x1        == IF overRight THEN PAGE_WIDTH - MARGIN_RIGHT - textWidth ELSE x
        underLeft == x1 < 6800
        validX    == IF underLeft THEN 6800 ELSE x1
        overBottom == py > PAGE_HEIGHT - MARGIN_BOTTOM
        validY    == IF overBottom THEN PAGE_HEIGHT - MARGIN_BOTTOM ELSE py
    IN  [x |-> validX, y |-> validY,
         valid |-> ~overRight /\ ~underLeft /\ ~overBottom]

\* sharp addThaiText: where pdf.text is called, textWidth being what
\* pdf.getTextWidth returned for the processed text
SharpAddThaiTextAt(x, py, textWidth) ==
    LET position == validateTextPosition(x, py, textWidth)
    IN  [x |-> position.x, y |-> position.y]

PosValidate ==
    /\ res = NoArg
    /\ res' = [fn |-> "validateTextPosition",
               position |-> validateTextPosition(arg.x, arg.y, arg.textWidth)]
    /\ UNCHANGED <<exportVars, arg>>

PosAddThaiText ==
    /\ res = NoArg
    /\ res' = [fn |-> "addThaiText",
               position |-> validateTextPosition(arg.x, arg.y, arg.textWidth),
               drawn |-> SharpAddThaiTextAt(arg.x, arg.y, arg.textWidth)]
    /\ UNCHANGED <<exportVars, arg>>

InitPos ==
    /\ IdleExport
    /\ arg \in [x : {0, 3000, 6800, 8500, 30000, 52728, 60000},
                 y : {0, 6800, 40000, 77389, 90000},
                 textWidth : {0, 10000, 60000}]
    /\ res = NoArg

NextPos == PosValidate \/ PosAddThaiText

SpecPos == InitPos /\ [][NextPos]_vars

----------------------------------------------------------------------------
(* Word wrappers: the fallback path of splitThaiTextToSize in the sharp    *)
(* support module (utils/thai-pdf-test-data.ts lines 606-635) and in the   *)
(* simple support module, and splitThaiTextForImage of the canvas export.  *)
(* Widths are the deterministic estimates the modules fall back to.        *)

\* sharp getTextWidth, line 593: text.length * 7.2 for Thai, * 6 otherwise
SharpGetTextWidth(text) ==
    IF containsThaiText(text) THEN Len(text) * 720 ELSE Len(text) * 600

\* simple getTextWidth, line 114: text.length * 8 for Thai, * 6 otherwise
SimpleGetTextWidth(text) ==
    IF containsThaiText(text) THEN Len(text) * 800 ELSE Len(text) * 600

\* the longest prefix of text whose characters are all whitespace (sp) or
\* all non-whitespace (~sp)
RECURSIVE Run(_, _)
Run(text, sp) ==
    IF text = <<>> \/ IsSpace(Head(text)) # sp THEN <<>>
    ELSE <<Head(text)>> \o Run(Tail(text), sp)

\* text.split(/(\s+)/): the pieces between whitespace runs, with the runs
\* themselves kept as tokens
RECURSIVE SplitKeepingSpaces(_)
SplitKeepingSpaces(text) ==
    LET piece == Run(text, FALSE)
        afterPiece == SubSeq(text, Len(piece) + 1, Len(text))
        gap == Run(afterPiece, TRUE)
        afterGap == SubSeq(afterPiece, Len(gap) + 1, Len(afterPiece))
    IN  IF afterPiece = <<>> THEN <<piece>>
        ELSE <<piece, gap>> \o SplitKeepingSpaces(afterGap)

\* text.split(' '): the pieces between single space characters
RECURSIVE SplitOnSpace(_)
SplitOnSpace(text) ==
    LET piece == IF \E k \in 1..Len(text) : text[k] = " "
                 THEN SubSeq(text, 1, (CHOOSE k \in 1..Len(text) :
                          text[k] = " " /\ \A j \in 1..(k - 1) : text[j] # " ") - 1)
                 ELSE text
    IN  IF Len(piece) = Len(text) THEN <<piece>>
        ELSE <<piece>> \o SplitOnSpace(SubSeq(text, Len(piece) + 2, Len(text)))

\* a break point of zero: nothing is cut off
BreakPointZero(currentLine) == 0

\* Math.floor(currentLine.length * 0.8)
BreakPoint(currentLine) == (Len(currentLine) * 8) \div 10

\* sharp lines 624-628: the while loop that splits a word that is too long;
\* st = [lines, currentLine]
RECURSIVE SharpHardSplit(_, _)
SharpHardSplit(st, maxWidth) ==
    IF SharpGetTextWidth(st.currentLine) > maxWidth /\ Len(st.currentLine) > 1
    THEN SharpHardSplit(
            [lines |-> Append(st.lines,
                              SubSeq(st.currentLine, 1, BreakPoint(st.currentLine))),
             currentLine |-> SubSeq(st.currentLine, BreakPoint(st.currentLine) + 1,
                                    Len(st.currentLine))],
            maxWidth)
    ELSE st

\* sharp lines 611-630: the loop over the words
RECURSIVE SharpWords(_, _, _)
SharpWords(words, st, maxWidth) ==
    IF words = <<>> THEN st
    ELSE
      LET word == Head(words)
          testLine == st.currentLine \o word
      IN  IF SharpGetTextWidth(testLine) <= maxWidth
          THEN SharpWords(Tail(words), [st EXCEPT !.currentLine = testLine], maxWidth)
          ELSE SharpWords(Tail(words),
                 SharpHardSplit(
                    [lines |-> IF Trim(st.currentLine) # <<>>
                               THEN Append(st.lines, Trim(st.currentLine))
                               ELSE st.lines,
                     currentLine |-> Trim(word)],
                    maxWidth),
                 maxWidth)

\* sharp splitThaiTextToSize, the catch branch (lines 606-635)
SharpSplitFallback(text, maxWidth) ==
    LET st == SharpWords(SplitKeepingSpaces(text),
                         [lines |-> <<>>, currentLine |-> <<>>], maxWidth)
    IN  IF Trim(st.currentLine) # <<>>
        THEN Append(st.lines, Trim(st.currentLine)) ELSE st.lines

\* the width estimate of the two greedy wrappers; splitThaiTextForImage,
\* lines 292-296: testLine.length * fontSize * 0.6 with the default
\* fontSize of 12
GreedyWidth(fn, text) ==
    IF fn = "splitThaiTextForImage" THEN Len(text) * 720
    ELSE SimpleGetTextWidth(text)

\* simple lines 132-140 and splitThaiTextForImage lines 294-304: the loop
\* over the words, the same in both but for the width estimate
RECURSIVE GreedyWords(_, _, _, _)
GreedyWords(fn, words, st, maxWidth) ==
    IF words = <<>> THEN st
    ELSE
      LET word == Head(words)
          testLine == IF st.currentLine # <<>>
                      THEN st.currentLine \o <<" ">> \o word ELSE word
      IN  IF GreedyWidth(fn, testLine) <= maxWidth
          THEN GreedyWords(fn, Tail(words), [st EXCEPT !.currentLine = testLine], maxWidth)
          ELSE GreedyWords(fn, Tail(words),
                 [lines |-> IF st.currentLine # <<>>
                            THEN Append(st.lines, st.currentLine) ELSE st.lines,
                  currentLine |-> word],
                 maxWidth)

\* the result of a greedy wrapper: if (currentLine) lines.push(currentLine)
GreedyWrap(fn, text, maxWidth) ==
    LET st == GreedyWords(fn, SplitOnSpace(text),
                          [lines |-> <<>>, currentLine |-> <<>>], maxWidth)
    IN  IF st.currentLine # <<>> THEN Append(st.lines, st.currentLine) ELSE st.lines

\* simple splitThaiTextToSize, the catch branch (lines 127-143)
SimpleSplitFallback(text, maxWidth) == GreedyWrap("splitThaiTextToSize", text, maxWidth)

\* splitThaiTextForImage (utils/thai-pdf-test-data.ts lines 287-308)
splitThaiTextForImage(text, maxWidth) == GreedyWrap("splitThaiTextForImage", text, maxWidth)

WrapSharp ==
    /\ res = NoArg
    /\ res' = [fn |-> "sharp", lines |-> SharpSplitFallback(arg.text, arg.maxWidth)]
    /\ UNCHANGED <<exportVars, arg>>

WrapSimple ==
    /\ res = NoArg
    /\ res' = [fn |-> "simple", lines |-> SimpleSplitFallback(arg.text, arg.maxWidth)]
    /\ UNCHANGED <<exportVars, arg>>

WrapImage ==
    /\ res = NoArg
    /\ res' = [fn |-> "image", lines |-> splitThaiTextForImage(arg.text, arg.maxWidth)]
    /\ UNCHANGED <<exportVars, arg>>

InitWrap ==
    /\ IdleExport
    /\ arg \in [text : TextsUpTo({"a", "th", " ", "tab"}, MaxWrapLen), maxWidth : {0, 720, 1440, 2400}]
    /\ res = NoArg

NextWrap == WrapSharp \/ WrapSimple \/ WrapImage

SpecWrap == InitWrap /\ [][NextWrap]_vars

----------------------------------------------------------------------------
(* SpecConc: two calls of exportThaiPDFWithImages (utils/thai-pdf-test-    *)
(* data.ts lines 311-420) on two documents, interleaved at their awaits.   *)
(* arg[p] is the document of call p; res.calls[p] holds the locals of call *)
(* p and what it has drawn on its own pdf; res.sceneCounter[c] is the cell *)
(* c in which a sceneCounter variable lives.                               *)

MaxDocLen == 2

\* the local table layouts (lines 357-364); LINE_HEIGHT is 16 in this function
ImageLayouts ==
    [t \in {"scene-heading", "action", "character", "dialogue",
            "parenthetical", "transition"} |->
        [marginLeft |-> CASE t = "character" -> 20000
                          [] t = "dialogue" -> 13000
                          [] t = "parenthetical" -> 16500
                          [] t = "transition" -> 40000
                          [] OTHER -> 0,
         fontWeight |-> IF t = "scene-heading" THEN "bold" ELSE "normal",
         spaceAfter |-> IF t \in {"character", "parenthetical"} THEN 0 ELSE 1600]]

\* layouts[block.type] || layouts['action']
ImageLayoutOf(blockType) ==
    IF blockType \in DOMAIN ImageLayouts THEN ImageLayouts[blockType]
    ELSE ImageLayouts["action"]

\* a sceneCounter declared at module level: one cell for all calls
SceneCounterCellShared(p) == 1

\* the cell that holds the sceneCounter of call p: `let sceneCounter = 1`
\* (line 354) is declared inside the function, every call has its own
SceneCounterCell(p) == p

\* lines 366-382 from block k on: blank blocks are skipped, and the next
\* block is prepared up to its lines; "#" stands for the digits of the
\* scene number, which num holds
RECURSIVE ImageAdvance(_, _, _, _)
ImageAdvance(doc, k, cy, counter) ==
    IF k > Len(doc)
    THEN [done |-> TRUE, k |-> k, y |-> cy, counter |-> counter,
          lines |-> <<>>, num |-> <<>>]
    ELSE IF Trim(doc[k].content) = <<>>
    THEN ImageAdvance(doc, k + 1, cy, counter)
    ELSE
      LET layout == ImageLayoutOf(doc[k].type)
          scene  == doc[k].type = "scene-heading"
          text   == IF scene THEN <<"#", ".", " ">> \o doc[k].content
                    ELSE doc[k].content
          maxWidth == (PAGE_WIDTH - MARGIN_LEFT - 6800) - layout.marginLeft
          lines  == splitThaiTextForImage(text, maxWidth)
          after  == IF scene THEN counter + 1 ELSE counter
      IN  IF lines = <<>>
          THEN ImageAdvance(doc, k + 1, cy + layout.spaceAfter, after)
          ELSE [done |-> FALSE, k |-> k, y |-> cy, counter |-> after,
                lines |-> lines, num |-> IF scene THEN <<counter>> ELSE <<>>]

ConcIdle ==
    [pc |-> "start", k |-> 0, pending |-> <<>>, num |-> <<>>,
     y |-> MARGIN_TOP, page |-> 0, draws |-> <<>>]

\* call c resumes after the await of a line (or of the author line of the
\* title page) and runs to its next await or to its end; counter is the
\* value of its sceneCounter.  Lines 351-354 after the title page, lines
\* 384-396 in the loop
ImageResume(c, counter, doc) ==
    LET fromTitle == c.pc = "awaitAuthor"
        y1  == IF fromTitle THEN MARGIN_TOP ELSE c.y + 1600
        pg1 == IF fromTitle THEN 1 ELSE c.page
        cnt1 == IF fromTitle THEN 1 ELSE counter
        sameBlock == ~fromTitle /\ c.pending # <<>>
        adv == IF sameBlock
               THEN [done |-> FALSE, k |-> c.k, y |-> y1, counter |-> cnt1,
                     lines |-> c.pending, num |-> c.num]
               ELSE ImageAdvance(doc, c.k + 1,
                        IF fromTitle THEN y1
                        ELSE y1 + ImageLayoutOf(doc[c.k].type).spaceAfter,
                        cnt1)
        break == adv.y > PAGE_HEIGHT - MARGIN_TOP - 1600 * 2
        ly == IF break THEN MARGIN_TOP ELSE adv.y
        lp == IF break THEN pg1 + 1 ELSE pg1
    IN  IF adv.done
        THEN [call |-> [c EXCEPT !.pc = "done", !.k = adv.k, !.y = adv.y,
                                 !.page = pg1, !.pending = <<>>, !.num = <<>>],
              counter |-> adv.counter]
        ELSE [call |-> [pc |-> "awaitLine", k |-> adv.k,
                        pending |-> Tail(adv.lines), num |-> adv.num,
                        y |-> ly, page |-> lp,
                        draws |-> Append(c.draws,
                            [page |-> lp,
                             x |-> MARGIN_LEFT + ImageLayoutOf(doc[adv.k].type).marginLeft,
                             y |-> ly, text |-> Head(adv.lines), num |-> adv.num])],
              counter |-> adv.counter]

\* lines 318-346: the call starts and awaits the title line
ConcTitle(p) ==
    /\ res.calls[p].pc = "start"
    /\ res' = [res EXCEPT !.calls[p].pc = "awaitTitle",
                          !.body = Append(res.body, p)]
    /\ UNCHANGED <<exportVars, arg>>

\* line 347: the call awaits the author line
ConcAuthor(p) ==
    /\ res.calls[p].pc = "awaitTitle"
    /\ res' = [res EXCEPT !.calls[p].pc = "awaitAuthor"]
    /\ UNCHANGED <<exportVars, arg>>

\* the call resumes and draws its next line
ConcLine(p) ==
    /\ res.calls[p].pc \in {"awaitAuthor", "awaitLine"}
    /\ LET r == ImageResume(res.calls[p], res.sceneCounter[SceneCounterCell(p)], arg[p])
       IN  /\ r.call.pc = "awaitLine"
           /\ res' = [res EXCEPT !.calls[p] = r.call,
                                 !.sceneCounter[SceneCounterCell(p)] = r.counter]
    /\ UNCHANGED <<exportVars, arg>>

\* the call resumes, finds no further line and saves its pdf (lines
\* 399-404); removeChild throws when the indicator of the call is no longer
\* a child of the body, and the catch block runs
ConcSave(p) ==
    /\ res.calls[p].pc \in {"awaitAuthor", "awaitLine"}
    /\ LET r == ImageResume(res.calls[p], res.sceneCounter[SceneCounterCell(p)], arg[p])
           attached == \E k \in 1..Len(res.body) : res.body[k] = p
       IN  /\ r.call.pc = "done"
           /\ res' = [res EXCEPT
                  !.calls[p] = IF attached THEN r.call
                               ELSE [r.call EXCEPT !.pc = "failed"],
                  !.sceneCounter[SceneCounterCell(p)] = r.counter,
                  !.body = IF attached THEN RemoveOwnIndicator(res.body, p)
                           ELSE RemoveFirstIndicator(res.body)]
    /\ UNCHANGED <<exportVars, arg>>

\* an awaited addThaiTextAsImage rejects: the catch block of lines 409-419
\* runs - it removes the element document.querySelector returns for the
\* classes of the loading indicators, the first one in the document (lines
\* 413-416) - and the call is over
ConcFail(p) ==
    /\ res.calls[p].pc \in {"awaitTitle", "awaitAuthor", "awaitLine"}
    /\ res' = [res EXCEPT !.calls[p].pc = "failed",
                          !.body = RemoveFirstIndicator(res.body)]
    /\ UNCHANGED <<exportVars, arg>>

InitConc ==
    /\ IdleExport
    /\ arg \in [{1, 2} ->
                 UNION {[1..n -> {[type |-> "scene-heading", content |-> <<"a">>],
                                  [type |-> "action", content |-> <<"a">>],
                                  [type |-> "action", content |-> <<" ">>]}] :
                        n \in 0..MaxDocLen}]
    /\ res = [fn |-> "exportThaiPDFWithImages",
              calls |-> [p \in {1, 2} |-> ConcIdle],
              sceneCounter |-> [c \in {1, 2} |-> 1],
              body |-> <<>>]

NextConc ==
    \E p \in {1, 2} :
        ConcTitle(p) \/ ConcAuthor(p) \/ ConcLine(p) \/ ConcSave(p) \/ ConcFail(p)

SpecConc == InitConc /\ [][NextConc]_vars

----------------------------------------------------------------------------
(* useEnhancedSelection: copy, cut and paste of blocks *)

\* Blocks are objects: res.heap holds them, and the block lists (the
\* document res.doc, the clipboard, the lists handed to addToHistory) hold
\* references into it, so that two lists can share one object.  A block id
\* is a sequence: <<n>> for an original block, and id \o <<t>> for the
\* template `${id}-copy-${t}`.  res.history records every addToHistory
\* call: the list handed over and, in was, the contents its blocks had then.

MaxOps == 3

SelectionIdle ==
    [fn |-> "useEnhancedSelection",
     heap |-> <<[id |-> <<1>>, content |-> <<"a">>],
                [id |-> <<2>>, content |-> <<"b">>]>>,
     doc |-> <<1, 2>>, clipboard |-> <<>>, history |-> <<>>,
     now |-> 0, ops |-> 0]

\* the ids of the blocks of the list refs
IdsOf(heap, refs) == {heap[refs[k]].id : k \in 1..Len(refs)}

\* Array.prototype.filter on a block list, by membership of the id in ids
FilterIds(heap, refs, ids, keep) ==
    SelectSeq(refs, LAMBDA r : (heap[r].id \in ids) = keep)

\* Array.prototype.findIndex by id (0-based, -1 when there is none)
FindIndex(heap, refs, ids) ==
    IF \E k \in 1..Len(refs) : heap[refs[k]].id \in ids
    THEN (CHOOSE k \in 1..Len(refs) :
              /\ heap[refs[k]].id \in ids
              /\ \A j \in 1..(k - 1) : heap[refs[j]].id \notin ids) - 1
    ELSE -1

\* Array.prototype.splice(start, 0, ...items): a negative start counts from
\* the end, and the start is clamped to the list
Splice(refs, start, items) ==
    LET n  == Len(refs)
        at == IF start < 0 THEN (IF n + start < 0 THEN 0 ELSE n + start)
              ELSE IF start > n THEN n ELSE start
    IN  SubSeq(refs, 1, at) \o items \o SubSeq(refs, at + 1, n)

\* copySelectedBlocks on the state s with the blocks of ids sel selected,
\* Date.now() returning t: fresh objects go to the clipboard
CopyInto(s, sel, t) ==
    IF sel = {} THEN s
    ELSE LET picked == FilterIds(s.heap, s.doc, sel, TRUE)
             n      == Len(s.heap)
         IN  [s EXCEPT
                !.heap = s.heap \o
                    [k \in 1..Len(picked) |->
                        [id |-> s.heap[picked[k]].id \o <<t>>,
                         content |-> s.heap[picked[k]].content]],
                !.clipboard = [k \in 1..Len(picked) |-> n + k]]

\* addToHistory(blocks, description)
AddToHistory(s) ==
    [s EXCEPT !.history =
        Append(s.history,
               [blocks |-> s.doc,
                was |-> [k \in 1..Len(s.doc) |-> s.heap[s.doc[k]].content]])]

copySelectedBlocks(sel, dt) ==
    /\ res.fn = "useEnhancedSelection"
    /\ res.ops < MaxOps
    /\ res' = [CopyInto(res, sel, res.now + dt)
                  EXCEPT !.now = res.now + dt, !.ops = res.ops + 1]
    /\ UNCHANGED <<exportVars, arg>>

cutSelectedBlocks(sel, dt) ==
    /\ res.fn = "useEnhancedSelection"
    /\ res.ops < MaxOps
    /\ LET copied == AddToHistory(CopyInto(res, sel, res.now + dt))
       IN  res' = [copied EXCEPT
                      !.doc = FilterIds(copied.heap, copied.doc, sel, FALSE),
                      !.now = res.now + dt, !.ops = res.ops + 1]
    /\ UNCHANGED <<exportVars, arg>>

\* the switch of performPaste on the state s (after addToHistory); an absent
\* targetId is <<>>, an absent position or replaceBlocks is <<>>, a present
\* one is <<value>>
PasteInto(s, mode, targetId, position, replaceBlocks) ==
    LET clip == s.clipboard
        at   == FindIndex(s.heap, s.doc, {targetId})
    IN  CASE mode = "inside" ->
                IF targetId # <<>> /\ position # <<>> /\ at # -1 /\ Len(clip) = 1
                THEN LET target == s.doc[at + 1]
                         cur    == s.heap[target].content
                         \* String.prototype.slice clamps the position
                         pos    == IF position[1] > Len(cur) THEN Len(cur)
                                   ELSE position[1]
                     IN  [s EXCEPT !.heap[target].content =
                             SubSeq(cur, 1, pos)
                             \o s.heap[clip[1]].content
                             \o SubSeq(cur, pos + 1, Len(cur))]
                ELSE s
          [] mode = "replace" ->
                IF replaceBlocks # <<>>
                THEN [s EXCEPT !.doc =
                        Splice(FilterIds(s.heap, s.doc, replaceBlocks[1], FALSE),
                               FindIndex(s.heap, s.doc, replaceBlocks[1]), clip)]
                ELSE s
          [] mode = "after" ->
                IF targetId # <<>> /\ at # -1
                THEN [s EXCEPT !.doc = Splice(s.doc, at + 1, clip)]
                ELSE s
          [] mode = "before" ->
                IF targetId # <<>> /\ at # -1
                THEN [s EXCEPT !.doc = Splice(s.doc, at, clip)]
                ELSE s
          [] OTHER -> [s EXCEPT !.doc = s.doc \o clip]

performPaste(mode, targetId, position, replaceBlocks) ==
    /\ res.fn = "useEnhancedSelection"
    /\ res.ops < MaxOps
    /\ res' = IF res.clipboard = <<>> THEN [res EXCEPT !.ops = res.ops + 1]
              ELSE [PasteInto(AddToHistory(res), mode, targetId, position,
                              replaceBlocks)
                       EXCEPT !.ops = res.ops + 1]
    /\ UNCHANGED <<exportVars, arg>>

InitSelection ==
    /\ IdleExport
    /\ arg = NoArg
    /\ res = SelectionIdle

NextSelection ==
    \/ \E sel \in SUBSET IdsOf(res.heap, res.doc), dt \in {0, 1} :
          copySelectedBlocks(sel, dt)
    \/ \E sel \in SUBSET IdsOf(res.heap, res.doc), dt \in {0, 1} :
          cutSelectedBlocks(sel, dt)
    \/ \E mode \in {"inside", "replace", "after", "before", "end"},
          targetId \in IdsOf(res.heap, res.doc) \cup {<<>>},
          position \in {<<>>, <<0>>, <<1>>},
          replaceBlocks \in {<<>>} \cup
                            {<<ids>> : ids \in SUBSET IdsOf(res.heap, res.doc)} :
          performPaste(mode, targetId, position, replaceBlocks)

SpecSelection == InitSelection /\ [][NextSelection]_vars

----------------------------------------------------------------------------
(* useSceneHeadingKeyboardController: the processing lock of the Enter key *)

\* res holds the hook: its props suggestions and selectedIndex,
\* processingRef.current in processing, the number of requestAnimationFrame
\* callbacks not yet run in frames, whether the hook is mounted, and what it
\* called: the labels given to onSelectSuggestion in selected, the number of
\* onClose and of onCreateActionBlock calls.  A label is a sequence of
\* tokens, " " being a blank.

MaxSuggestions == 2
MaxKeys == 2

\* the first lines of handleKeyEvent: the event is handled when the hook
\* is mounted, there are suggestions and the lock is free
KeyHandled ==
    /\ res.fn = "useSceneHeadingKeyboardController"
    /\ res.mounted
    /\ res.suggestions # <<>>
    /\ ~res.processing

\* handleKeyEvent on Enter
KeyEnter ==
    /\ KeyHandled
    /\ res.handled < MaxKeys
    /\ LET k == res.selectedIndex + 1
       IN  IF k \in 1..Len(res.suggestions)
           THEN LET label == res.suggestions[k]
                    isPrefixOnly ==
                        Trim(label) \in {<<"INT.">>, <<"EXT.">>, <<"INT./EXT.">>,
                                         <<"EXT./INT.">>, <<"I/E.">>}
                IN  res' = [res EXCEPT
                               !.handled = res.handled + 1,
                               !.selected = Append(res.selected, label),
                               !.closed = res.closed + 1,
                               !.processing = ~isPrefixOnly,
                               !.frames = IF isPrefixOnly THEN res.frames
                                          ELSE res.frames + 1]
           ELSE res' = [res EXCEPT !.handled = res.handled + 1,
                                   !.processing = TRUE]
    /\ UNCHANGED <<exportVars, arg>>

\* the callback given to requestAnimationFrame
AnimationFrame ==
    /\ res.fn = "useSceneHeadingKeyboardController"
    /\ res.frames > 0
    /\ res' = [res EXCEPT !.frames = res.frames - 1,
                          !.actionBlocks = res.actionBlocks + 1,
                          !.processing = FALSE]
    /\ UNCHANGED <<exportVars, arg>>

\* handleKeyEvent on ArrowDown
KeyArrowDown ==
    /\ KeyHandled
    /\ res' = [res EXCEPT !.selectedIndex =
                  (res.selectedIndex + 1) % Len(res.suggestions)]
    /\ UNCHANGED <<exportVars, arg>>

\* handleKeyEvent on ArrowUp
KeyArrowUp ==
    /\ KeyHandled
    /\ res' = [res EXCEPT !.selectedIndex =
                  IF res.selectedIndex = 0 THEN Len(res.suggestions) - 1
                  ELSE res.selectedIndex - 1]
    /\ UNCHANGED <<exportVars, arg>>

\* handleKeyEvent on Escape
KeyEscape ==
    /\ KeyHandled
    /\ res.handled < MaxKeys
    /\ res' = [res EXCEPT !.handled = res.handled + 1,
                          !.closed = res.closed + 1]
    /\ UNCHANGED <<exportVars, arg>>

\* the cleanups of the two effects: the listeners are removed and the lock
\* is released
KeysUnmount ==
    /\ res.fn = "useSceneHeadingKeyboardController"
    /\ res.mounted
    /\ res' = [res EXCEPT !.mounted = FALSE, !.processing = FALSE]
    /\ UNCHANGED <<exportVars, arg>>

InitKeys ==
    /\ IdleExport
    /\ arg = NoArg
    /\ \E n \in 0..MaxSuggestions, index \in 0..MaxSuggestions :
       \E suggestions \in [1..n -> {<<"INT.">>, <<" ", "INT.">>, <<"INT.", " ", "ROOM">>}] :
          res = [fn |-> "useSceneHeadingKeyboardController",
                 suggestions |-> suggestions, selectedIndex |-> index,
                 processing |-> FALSE, frames |-> 0, mounted |-> TRUE,
                 selected |-> <<>>, closed |-> 0, actionBlocks |-> 0,
                 handled |-> 0]

NextKeys ==
    \/ KeyEnter
    \/ AnimationFrame
    \/ KeyArrowDown
    \/ KeyArrowUp
    \/ KeyEscape
    \/ KeysUnmount

SpecKeys == InitKeys /\ [][NextKeys]_vars

\* the browser runs every requested animation frame callback; nothing
\* makes the component unmount or the user press a key
SpecKeysLive == SpecKeys /\ WF_vars(AnimationFrame)

----------------------------------------------------------------------------
(* ClipboardNotification and the notification state of useDragSelection *)

\* res holds the notification prop (0 for null, else the id of the
\* notification), the component states isVisible and isExiting, and the
\* pending setTimeout callbacks in timers: kind "auto" is the callback of
\* line 29, kind "exit" that of lines 31 and 108, id the notification it
\* was started for, left the time to run in tenths of a second.

MaxNotifications == 2

\* 3000 ms and 300 ms, in tenths of a second
AUTO_DISMISS_DELAY == 30
EXIT_DELAY == 3

NotificationIdle ==
    [fn |-> "ClipboardNotification", notification |-> 0, shown |-> 0,
     isVisible |-> FALSE, isExiting |-> FALSE, timers |-> {}]

\* the cleanup of the effect: clearTimeout of the auto-dismiss timer of the
\* notification the effect last ran for
ClearAutoTimer(timers, id) ==
    {t \in timers : ~(t.kind = "auto" /\ t.id = id)}

\* showNotification, and the effect it triggers in ClipboardNotification
ShowNotification ==
    /\ res.fn = "ClipboardNotification"
    /\ res.shown < MaxNotifications
    /\ LET id == res.shown + 1
       IN  res' = [res EXCEPT
                      !.notification = id,
                      !.shown = id,
                      !.isVisible = TRUE,
                      !.isExiting = FALSE,
                      !.timers = ClearAutoTimer(res.timers, res.notification)
                          \cup {[kind |-> "auto", id |-> id,
                                 left |-> AUTO_DISMISS_DELAY]}]
    /\ UNCHANGED <<exportVars, arg>>

\* the callback of the 3-second timer
AutoDismissFires ==
    /\ res.fn = "ClipboardNotification"
    /\ \E t \in res.timers :
          /\ t.kind = "auto"
          /\ t.left = 0
          /\ res' = [res EXCEPT
                        !.isExiting = TRUE,
                        !.timers = (res.timers \ {t})
                            \cup {[kind |-> "exit", id |-> t.id,
                                   left |-> EXIT_DELAY]}]
    /\ UNCHANGED <<exportVars, arg>>

\* the click handler of the close button, which is there when the
\* component renders
ClickDismiss ==
    /\ res.fn = "ClipboardNotification"
    /\ res.notification # 0
    /\ res.isVisible
    /\ res' = [res EXCEPT
                  !.isExiting = TRUE,
                  !.timers = res.timers
                      \cup {[kind |-> "exit", id |-> res.notification,
                             left |-> EXIT_DELAY]}]
    /\ UNCHANGED <<exportVars, arg>>

\* handleNotificationDismiss: prev?.id === id ? null : prev
handleNotificationDismiss(prev, id) == IF prev = id THEN 0 ELSE prev

\* the callback of a 300 ms timer: onDismiss(notification.id), then
\* setIsVisible(false); when the notification becomes null the cleanup of
\* the effect runs
ExitFires ==
    /\ res.fn = "ClipboardNotification"
    /\ \E t \in res.timers :
          /\ t.kind = "exit"
          /\ t.left = 0
          /\ LET after == handleNotificationDismiss(res.notification, t.id)
                 rest  == res.timers \ {t}
             IN  res' = [res EXCEPT
                            !.notification = after,
                            !.isVisible = FALSE,
                            !.timers =
                                IF after # res.notification
                                THEN ClearAutoTimer(rest, res.notification)
                                ELSE rest]
    /\ UNCHANGED <<exportVars, arg>>

\* a tenth of a second passes: no pending timer is due
TimePasses ==
    /\ res.fn = "ClipboardNotification"
    /\ res.timers # {}
    /\ \A t \in res.timers : t.left > 0
    /\ res' = [res EXCEPT !.timers =
                  {[t EXCEPT !.left = t.left - 1] : t \in res.timers}]
    /\ UNCHANGED <<exportVars, arg>>

InitNotification ==
    /\ IdleExport
    /\ arg = NoArg
    /\ res = NotificationIdle

NextNotification ==
    \/ ShowNotification
    \/ AutoDismissFires
    \/ ClickDismiss
    \/ ExitFires
    \/ TimePasses

SpecNotification == InitNotification /\ [][NextNotification]_vars

----------------------------------------------------------------------------
(* Page breaks of the sharp exportToPDF and of the canvas-first fallback *)

\* res holds one export: which of the two it is in path, the cursor y, the
\* number of blocks laid out in done, and in drawn the number of text lines
\* drawn on each content page so far, the last element being the current
\* page.  As in the standard export the model takes the number of lines
\* the splitter returns for a block as an input; every line is non-empty.

MaxLayoutBlocks == 2

\* thai-pdf-support-sharp willTextFitOnPage
willTextFitOnPage(currentY, additionalLines) ==
    currentY + additionalLines * LINE_HEIGHT <= PAGE_HEIGHT - MARGIN_BOTTOM

\* a page on which lines have been drawn gets one more line; addPage opens
\* an empty one
DrawOnPage(drawn) == [drawn EXCEPT ![Len(drawn)] = drawn[Len(drawn)] + 1]

AddPage(drawn) == Append(drawn, 0)

\* thai-pdf-support-sharp addPageBreakIfNeeded, on the cursor and the pages
addPageBreakIfNeeded(s, requiredLines) ==
    IF ~willTextFitOnPage(s.y, requiredLines)
    THEN [s EXCEPT !.y = MARGIN_TOP, !.drawn = AddPage(s.drawn)]
    ELSE s

\* the line loop of the sharp exportToPDF, n lines left to draw
RECURSIVE SharpLines(_, _, _)
SharpLines(cy, drawn, n) ==
    IF n = 0 THEN [y |-> cy, drawn |-> drawn]
    ELSE IF ~willTextFitOnPage(cy, 1)
         THEN SharpLines(MARGIN_TOP + LINE_HEIGHT, DrawOnPage(AddPage(drawn)),
                         n - 1)
         ELSE SharpLines(cy + LINE_HEIGHT, DrawOnPage(drawn), n - 1)

\* one iteration of the block loop of the sharp exportToPDF on a block of
\* non-blank content that wraps to n lines
SharpLayoutBlock(n) ==
    /\ res.fn = "exportToPDF"
    /\ res.path = "sharp"
    /\ res.done < MaxLayoutBlocks
    /\ LET at == addPageBreakIfNeeded(res, n)
           s  == SharpLines(at.y, at.drawn, n)
       IN  res' = [res EXCEPT !.y = s.y + LINE_HEIGHT \div 2,
                              !.drawn = s.drawn,
                              !.done = res.done + 1]
    /\ UNCHANGED <<exportVars, arg>>

\* canvas-first export: MARGIN_TOP 56.69, LINE_HEIGHT 12 * 1.6
FALLBACK_MARGIN_TOP == 5669
FALLBACK_LINE_HEIGHT == 1920

\* canvas-first blockLayouts[type].spaceAfter, action for an unknown type
FallbackSpaceAfter(ty) ==
    CASE ty \in {"scene-heading", "shot"} -> (FALLBACK_LINE_HEIGHT * 12) \div 10
      [] ty = "character" -> (FALLBACK_LINE_HEIGHT * 3) \div 10
      [] ty = "parenthetical" -> (FALLBACK_LINE_HEIGHT * 2) \div 10
      [] ty = "transition" -> (FALLBACK_LINE_HEIGHT * 15) \div 10
      [] OTHER -> FALLBACK_LINE_HEIGHT

\* canvas-first calculateBlockHeight
calculateBlockHeight(ty, n) == n * FALLBACK_LINE_HEIGHT + FallbackSpaceAfter(ty)

\* the line loop of canvas-first addBlockToPDF, n lines left to draw
RECURSIVE FallbackLines(_, _, _)
FallbackLines(cy, drawn, n) ==
    IF n = 0 THEN [y |-> cy, drawn |-> drawn]
    ELSE IF cy > PAGE_HEIGHT - FALLBACK_MARGIN_TOP - FALLBACK_LINE_HEIGHT
         THEN FallbackLines(FALLBACK_MARGIN_TOP + FALLBACK_LINE_HEIGHT,
                            DrawOnPage(AddPage(drawn)), n - 1)
         ELSE FallbackLines(cy + FALLBACK_LINE_HEIGHT, DrawOnPage(drawn), n - 1)

\* one iteration of the block loop of the fallback path on a block of
\* type ty and non-blank content that wraps to n lines
FallbackLayoutBlock(ty, n) ==
    /\ res.fn = "exportToPDF"
    /\ res.path = "fallback"
    /\ res.done < MaxLayoutBlocks
    /\ LET at == IF res.y + calculateBlockHeight(ty, n)
                      > PAGE_HEIGHT - FALLBACK_MARGIN_TOP - FALLBACK_LINE_HEIGHT
                 THEN [res EXCEPT !.y = FALLBACK_MARGIN_TOP,
                                  !.drawn = AddPage(res.drawn)]
                 ELSE res
           s  == FallbackLines(at.y, at.drawn, n)
       IN  res' = [res EXCEPT !.y = s.y + FallbackSpaceAfter(ty),
                              !.drawn = s.drawn,
                              !.done = res.done + 1]
    /\ UNCHANGED <<exportVars, arg>>

\* the content page is added and the cursor set before the block loop
InitLayout ==
    /\ IdleExport
    /\ arg = NoArg
    /\ \E path \in {"sharp", "fallback"} :
          res = [fn |-> "exportToPDF", path |-> path,
                 y |-> IF path = "sharp" THEN MARGIN_TOP ELSE FALLBACK_MARGIN_TOP,
                 drawn |-> <<0>>, done |-> 0]

NextLayout ==
    \/ \E n \in {1, 2, 36, 50} : SharpLayoutBlock(n)
    \/ \E ty \in BlockTypes, n \in {1, 2, 36, 50} : FallbackLayoutBlock(ty, n)

SpecLayout == InitLayout /\ [][NextLayout]_vars

----------------------------------------------------------------------------
(* Font families of renderStandardBlock: measuring and drawing *)

\* thai-pdf-support-simple setFontForText: the family it sets for a text
setFontForText(text) == IF containsThaiText(text) THEN "times" ELSE "courier"

\* the lines of a text broken at the spaces of the set breaks, which are
\* left out; from is the start of the current line
RECURSIVE BrokenAt(_, _, _)
BrokenAt(text, breaks, from) ==
    IF \E k \in breaks : k >= from
    THEN LET k == CHOOSE j \in breaks :
                      j >= from /\ \A l \in breaks : l >= from => j <= l
         IN  <<SubSeq(text, from, k - 1)>> \o BrokenAt(text, breaks, k + 1)
    ELSE <<SubSeq(text, from, Len(text))>>

\* renderStandardBlock on the block arg, as far as fonts go: the family set
\* by splitThaiTextToSize for the measuring of the processed text (lines
\* 121-122), the lines pdf.splitTextToSize returns - the text broken at
\* some of its spaces, which ones being decided by the font metrics of the
\* pdf library - and the family addThaiText sets for each line (lines
\* 149-150)
FontRender ==
    /\ res = NoArg
    /\ LET processedText == SimpleProcessTextForPDF(RenderText(arg))
           spaces == {k \in 1..Len(processedText) : IsSpace(processedText[k])}
       IN  \E breaks \in SUBSET spaces :
              LET lines == BrokenAt(processedText, breaks, 1)
              IN  res' = [fn |-> "renderStandardBlock fonts",
                          measured |-> setFontForText(processedText),
                          lines |-> lines,
                          drawn |-> [k \in 1..Len(lines) |->
                              setFontForText(SimpleProcessTextForPDF(lines[k]))]]
    /\ UNCHANGED <<exportVars, arg>>

InitFont ==
    /\ IdleExport
    /\ \E ty \in {"action", "scene-heading"} :
       \E content \in TextsUpTo({"a", "b", "th", " "}, MaxContent) :
          arg = [type |-> ty, content |-> content]
    /\ res = NoArg

NextFont == FontRender

SpecFont == InitFont /\ [][NextFont]_vars

----------------------------------------------------------------------------
(* The fallback of the sharp splitThaiTextToSize, statement by statement *)

\* res holds the locals of the catch branch (lines 606-635): the words
\* still to visit, lines, currentLine, where the control is in pc - "words"
\* at the head of the for loop, "hard" at the test of the while loop,
\* "done" after the return - and the number of iterations of the while
\* loop so far in hardSteps.  arg is the text and maxWidth.

MaxTokenLen == 10

\* lines 607-609
SplitStart ==
    /\ res = NoArg
    /\ res' = [fn |-> "splitThaiTextToSize", pc |-> "words",
               words |-> SplitKeepingSpaces(arg.text),
               lines |-> <<>>, currentLine |-> <<>>, hardSteps |-> 0]
    /\ UNCHANGED <<exportVars, arg>>

\* lines 611-621: the next word is appended to the line, or the line is
\* pushed and the word becomes the line
SplitWord ==
    /\ res.fn = "splitThaiTextToSize"
    /\ res.pc = "words"
    /\ res.words # <<>>
    /\ LET word == Head(res.words)
           testLine == res.currentLine \o word
       IN  IF SharpGetTextWidth(testLine) <= arg.maxWidth
           THEN res' = [res EXCEPT !.words = Tail(res.words),
                                   !.currentLine = testLine]
           ELSE res' = [res EXCEPT
                           !.words = Tail(res.words),
                           !.lines = IF Trim(res.currentLine) # <<>>
                                     THEN Append(res.lines, Trim(res.currentLine))
                                     ELSE res.lines,
                           !.currentLine = Trim(word),
                           !.pc = "hard"]
    /\ UNCHANGED <<exportVars, arg>>

\* lines 624-627: the test of the while loop holds, one iteration
SplitHardStep ==
    /\ res.fn = "splitThaiTextToSize"
    /\ res.pc = "hard"
    /\ SharpGetTextWidth(res.currentLine) > arg.maxWidth
    /\ Len(res.currentLine) > 1
    /\ LET breakPoint == BreakPoint(res.currentLine)
       IN  res' = [res EXCEPT
                      !.lines = Append(res.lines,
                                       SubSeq(res.currentLine, 1, breakPoint)),
                      !.currentLine = SubSeq(res.currentLine, breakPoint + 1,
                                             Len(res.currentLine)),
                      !.hardSteps = res.hardSteps + 1]
    /\ UNCHANGED <<exportVars, arg>>

\* line 624: the test fails, the while loop is left
SplitHardExit ==
    /\ res.fn = "splitThaiTextToSize"
    /\ res.pc = "hard"
    /\ ~(SharpGetTextWidth(res.currentLine) > arg.maxWidth
          /\ Len(res.currentLine) > 1)
    /\ res' = [res EXCEPT !.pc = "words"]
    /\ UNCHANGED <<exportVars, arg>>

\* lines 632-635: the last line is pushed and the lines are returned
SplitReturn ==
    /\ res.fn = "splitThaiTextToSize"
    /\ res.pc = "words"
    /\ res.words = <<>>
    /\ res' = [res EXCEPT !.pc = "done",
                          !.lines = IF Trim(res.currentLine) # <<>>
                                    THEN Append(res.lines, Trim(res.currentLine))
                                    ELSE res.lines]
    /\ UNCHANGED <<exportVars, arg>>

\* the texts: a token of up to MaxTokenLen equal characters, alone or
\* followed by whitespace and a second token
InitSplit ==
    /\ IdleExport
    /\ \E c \in {"a", "th"}, n \in 0..MaxTokenLen,
          rest \in {<<>>, <<" ">>, <<" ", "a">>, <<" ", "tab", "th", "th">>},
          maxWidth \in {-720, 0, 720, 1440, 7200} :
          arg = [text |-> [k \in 1..n |-> c] \o rest, maxWidth |-> maxWidth]
    /\ res = NoArg

NextSplit ==
    \/ SplitStart
    \/ SplitWord
    \/ SplitHardStep
    \/ SplitHardExit
    \/ SplitReturn

SpecSplit == InitSplit /\ [][NextSplit]_vars

\* the function is synchronous code: it runs on until it returns
SpecSplitLive == SpecSplit /\ WF_vars(NextSplit)

----------------------------------------------------------------------------
(* Properties *)

\* the calls of out that rendered a block of type ty, in render order
CallsOfType(out, ty) == SelectSeq(out, LAMBDA r : r.block.type = ty)

\* the indices of the calls of out made at loop index k
CallsAt(out, k) == {n \in 1..Len(out) : out[n].at = k}

\* the blocks of index below the loop index of exportToStandardPDF
StdConsumed == IF phase = "standard" THEN 1..(i - 1) ELSE 1..Len(blocks)

LabelsOf(c) == {n \in 1..Len(c.draws) : c.draws[n].kind # "line"}

LinesOf(c) == {n \in 1..Len(c.draws) : c.draws[n].kind = "line"}

LatinLetters(text) == SelectSeq(text, LAMBDA c : c \in Latin)

Visible(text) == SelectSeq(text, LAMBDA c : ~IsSpace(c) /\ c # "zw")

\* C1: in exportToStandardPDF and exportToEnhancedStandardPDF the k-th
\* rendered dialogue block (a combined parenthetical+dialogue block
\* included) is given dialogue number k, so the numbers are 1, 2, 3, ... in
\* render order and none is used twice.
C1_DialogueNumbersSequential ==
    \A out \in {stdOut, enhOut} :
        \A k \in 1..Len(CallsOfType(out, "dialogue")) :
            CallsOfType(out, "dialogue")[k].dialogue = <<k>>

\* C2: every text line renderStandardBlock draws on a content page has
\* MARGIN_TOP <= y <= PAGE_HEIGHT - MARGIN_BOTTOM, for Latin and Thai line
\* heights.
C2_LinesInsideMargins ==
    \A n \in LinesOf(call) :
        /\ MARGIN_TOP <= call.draws[n].y
        /\ call.draws[n].y <= PAGE_HEIGHT - MARGIN_BOTTOM

\* a Thai block that starts below the top of page 1 and whose lines run
\* over onto page 2
C2_Witness ==
    /\ containsThaiText(call.text)
    /\ call.y0 > MARGIN_TOP
    /\ \E n, m \in LinesOf(call) :
          /\ call.draws[n].page = 1
          /\ call.draws[n].y + 2 * call.lineHeight > PAGE_HEIGHT - MARGIN_BOTTOM
          /\ call.draws[m].page = 2
          /\ call.draws[m].y = MARGIN_TOP

\* C3: every number label of a block that has lines is drawn on the page
\* and at the y of its anchor line: a scene number with the first line, a
\* dialogue or transition number with the last line.
C3_LabelsOnAnchorLine ==
    call.nLines >= 1 =>
        \A n \in LabelsOf(call) :
            \E m \in LinesOf(call) :
                /\ call.draws[m].idx =
                      (IF call.draws[n].kind = "scene" THEN 1 ELSE call.nLines)
                /\ call.draws[m].page = call.draws[n].page
                /\ call.draws[m].y = call.draws[n].y

\* C4: for a maxWidth at least as wide as one character (7.2pt, the widest),
\* every line the sharp fallback wrapper returns has a getTextWidth of at
\* most maxWidth.
C4_SharpLinesFit ==
    (res.fn = "sharp" /\ arg.maxWidth >= 720) =>
        \A k \in 1..Len(res.lines) : SharpGetTextWidth(res.lines[k]) <= arg.maxWidth

\* C5: in exportToStandardPDF a parenthetical immediately followed by a
\* dialogue is rendered as exactly one block, of type dialogue and content
\* parenthetical.content + " " + dialogue.content, and neither original is
\* rendered on its own; any other parenthetical is rendered unmerged.
C5_MergeLaw ==
    \A k \in StdConsumed :
        blocks[k].type = "parenthetical" =>
            /\ Cardinality(CallsAt(stdOut, k)) = 1
            /\ \A n \in CallsAt(stdOut, k) :
                  IF k + 1 <= Len(blocks) /\ blocks[k + 1].type = "dialogue"
                  THEN /\ stdOut[n].block.type = "dialogue"
                       /\ stdOut[n].block.content =
                             blocks[k].content \o <<" ">> \o blocks[k + 1].content
                       /\ CallsAt(stdOut, k + 1) = {}
                  ELSE /\ stdOut[n].block.type = "parenthetical"
                       /\ stdOut[n].block.content = blocks[k].content

\* exportToStandardPDF has rendered an unmerged parenthetical and then a
\* combined parenthetical+dialogue block
C5_Witness ==
    /\ phase = "enhancedPre"
    /\ Len(blocks) = 3
    /\ blocks[1].type = "parenthetical"
    /\ blocks[2].type = "parenthetical"
    /\ blocks[3].type = "dialogue"
    /\ Len(stdOut) = 2
    /\ stdOut[2].block.content = blocks[2].content \o <<" ">> \o blocks[3].content

\* the counter incremented for a block type
CounterOf(ty) ==
    CASE ty = "scene-heading" -> "scene"
      [] ty = "dialogue" -> "dialogue"
      [] ty = "transition" -> "transition"
      [] OTHER -> "none"

\* in both exporters the k-th scene heading is given scene number k and the
\* k-th transition transition number k, and the label drawn carries it
C6_Numbering ==
    /\ \A out \in {stdOut, enhOut} :
          /\ \A k \in 1..Len(CallsOfType(out, "scene-heading")) :
                CallsOfType(out, "scene-heading")[k].scene = <<k>>
          /\ \A k \in 1..Len(CallsOfType(out, "transition")) :
                CallsOfType(out, "transition")[k].transition = <<k>>
    /\ \A ty \in {"scene-heading", "transition"} :
          (phase \in {"standard", "enhancedRender"} /\ call.type = ty) =>
              \E n \in LabelsOf(call) :
                  /\ call.draws[n].kind = CounterOf(ty)
                  /\ call.draws[n].num =
                        Len(CallsOfType(IF phase = "standard" THEN stdOut ELSE enhOut, ty))

\* an iteration of a counting loop changes a counter only by adding one to
\* the counter of the type of a block the iteration consumed
C6_Step ==
    (phase \in {"standard", "enhancedPre"} /\ i' > i) =>
        \A kind \in {"scene", "dialogue", "transition"} :
            counters'[kind] # counters[kind] =>
                /\ counters'[kind] = counters[kind] + 1
                /\ \E k \in i..(i' - 1) : CounterOf(blocks[k].type) = kind

\* C6: in both exporters the k-th scene-heading block is drawn with scene
\* number k and the k-th transition block with transition number k, a
\* block changes at most the counter of its own type, and a block of any
\* other type changes no counter.
C6_SceneTransitionCounters == []C6_Numbering /\ [][C6_Step]_vars

\* both exporters have numbered two scene headings and, after them, the
\* first transition: the second heading is 2 and the transition is 1
C6_Witness ==
    /\ phase = "flow"
    /\ Len(blocks) = 3
    /\ blocks[1].type = "scene-heading"
    /\ blocks[2].type = "scene-heading"
    /\ blocks[3].type = "transition"
    /\ stdOut[2].scene = <<2>>
    /\ enhOut[2].scene = <<2>>
    /\ enhOut[3].transition = <<1>>

\* C7: the flow backend and exportToEnhancedStandardPDF render the same
\* sequence of blocks after parenthetical+dialogue merging and give every
\* scene-heading block and every dialogue block the same number.
C7_BackendsAgree ==
    phase = "done" =>
        /\ Len(flowOut) = Len(enhOut)
        /\ \A n \in 1..Len(flowOut) :
              /\ flowOut[n].type = enhOut[n].block.type
              /\ flowOut[n].scene = enhOut[n].scene
              /\ flowOut[n].dialogue = enhOut[n].dialogue

\* C8: renderStandardBlock draws the upper-cased content exactly when the
\* block type is scene-heading, character or transition and the content has
\* no Thai codepoint; a content with a Thai codepoint keeps the case of every
\* character, and so does a Latin content of any other type.
C8_UppercaseOnlyLatin ==
    res.fn = "renderStandardBlock" =>
        IF containsThaiText(arg.content)
        THEN Visible(res.text) = Visible(arg.content)
        ELSE IF arg.type \in {"scene-heading", "character", "transition"}
             THEN res.text = toUpperCase(arg.content)
             ELSE res.text = arg.content

\* a character block of mixed Thai and lowercase Latin content was drawn
\* with its lowercase letter kept
C8_Witness ==
    /\ res.fn = "renderStandardBlock"
    /\ arg.type = "character"
    /\ arg.content = <<"th", " ", "a">>
    /\ res.text = <<"th", " ", "a">>

\* C9: in PrintableScreenplay.renderBlock a scene-heading, character, shot or
\* transition block whose content has a Thai codepoint is rendered with its
\* Latin letters in their original case.
C9_FlowKeepsCaseOfThai ==
    (/\ res.fn = "renderBlock"
     /\ arg.type \in {"scene-heading", "character", "shot", "transition"}
     /\ containsThaiText(arg.content)) =>
        LatinLetters(res.text) = LatinLetters(arg.content)

\* C10: for a single whitespace-free token wider than maxWidth (maxWidth
\* being at least as wide as one character, 8pt the widest),
\* splitThaiTextForImage and the fallback of the simple splitThaiTextToSize
\* return at least two lines, each of width at most maxWidth.
C10_LongTokenIsSplit ==
    (/\ res.fn \in {"simple", "image"}
     /\ arg.maxWidth >= 800
     /\ arg.text # <<>>
     /\ \A k \in 1..Len(arg.text) : ~IsSpace(arg.text[k])
     /\ GreedyWidth(IF res.fn = "image" THEN "splitThaiTextForImage"
                    ELSE "splitThaiTextToSize", arg.text) > arg.maxWidth) =>
        /\ Len(res.lines) >= 2
        /\ \A k \in 1..Len(res.lines) :
              GreedyWidth(IF res.fn = "image" THEN "splitThaiTextForImage"
                          ELSE "splitThaiTextToSize", res.lines[k]) <= arg.maxWidth

\* C11: normalizeThaiText is idempotent: applied to its own result it
\* returns that result unchanged (both support modules).
C11_NormalizeIdempotent ==
    (res.fn \in {"simpleNormalize", "sharpNormalize"} /\ res.n = 2)
        => res.out = res.prev

\* C12: the result of normalizeThaiText holds no zero-width codepoint,
\* whether or not the text has Thai characters.
C12_NoZeroWidthLeft ==
    (res.fn \in {"simpleNormalize", "sharpNormalize"} /\ res.n = 1)
        => \A k \in 1..Len(res.out) : res.out[k] # "zw"

\* C13: for an empty or whitespace-only text (spaces, tabs) every word
\* wrapper - the fallback of splitThaiTextToSize in both support modules and
\* splitThaiTextForImage - returns zero lines.
C13_BlankTextNoLines ==
    (/\ res.fn \in {"sharp", "simple", "image"}
     /\ \A k \in 1..Len(arg.text) : IsSpace(arg.text[k]))
        => res.lines = <<>>

\* the calls of a log that rendered a combined parenthetical+dialogue block
MergedCalls(out) ==
    {k \in 1..Len(out) : blocks[out[k].at].type = "parenthetical"
                          /\ out[k].block.type = "dialogue"}

C14_CombinedIsNew ==
    \A out \in {stdOut, processedBlocks, enhOut} : \A k \in MergedCalls(out) :
        /\ out[k].block # blocks[out[k].at]
        /\ out[k].block # blocks[out[k].at + 1]
        /\ out[k].block.content =
              blocks[out[k].at].content \o <<" ">> \o blocks[out[k].at + 1].content

\* C14: exportToStandardPDF and exportToEnhancedStandardPDF never modify
\* their input: no step changes the blocks array (length, order, and each
\* block's id, type and content), and the block rendered for a merged
\* parenthetical+dialogue pair is a new object next to the two input blocks,
\* which keep their own content.
C14_InputNotMutated == [][blocks' = blocks]_vars /\ []C14_CombinedIsNew

\* both exporters have rendered a combined block for the pair that opens
\* the input, and the pair is still in the input
C14_Witness ==
    /\ phase = "flow"
    /\ Len(blocks) >= 2
    /\ blocks[1].type = "parenthetical"
    /\ blocks[2].type = "dialogue"
    /\ 1 \in MergedCalls(stdOut)
    /\ 1 \in MergedCalls(enhOut)

\* the eight types of the Block enumeration
EnumTypes ==
    {"scene-heading", "action", "character", "dialogue", "parenthetical",
     "transition", "shot", "text"}

\* C15: the layout lookup is total with an action fallback: each of the
\* eight block types has its own entry in the table renderStandardBlock
\* uses, and a type without an entry is laid out with the action descriptor,
\* in renderStandardBlock and in getLayoutForBlockType.
C15_LayoutTotal ==
    /\ res.fn = "blockLayouts" =>
          /\ arg.type \in EnumTypes => res.own
          /\ ~res.own => res.layout = blockLayouts["action"]
    /\ res.fn = "getLayoutForBlockType" =>
          (~res.own => res.layout = layoutConfig["action"])

\* C16: for every requested position and text width, validateTextPosition
\* returns a position inside the content rectangle (85 <= x <= 527.28 and
\* 68 <= y <= 773.89), and addThaiText draws the text at that position.
C16_PositionInsideContent ==
    /\ res.fn \in {"validateTextPosition", "addThaiText"} =>
          /\ MARGIN_LEFT <= res.position.x
          /\ res.position.x <= PAGE_WIDTH - MARGIN_RIGHT
          /\ MARGIN_TOP <= res.position.y
          /\ res.position.y <= PAGE_HEIGHT - MARGIN_BOTTOM
    /\ res.fn = "addThaiText" =>
          /\ res.drawn.x = res.position.x
          /\ res.drawn.y = res.position.y

\* C17: when an export fails the user is shown exactly one alert, on each
\* caller path (exportScreenplayToPDF and ThaiPDFExportButton.handleExport
\* calling exportToPDF).
C17_SingleAlert ==
    (res.fn = "export" /\ res.pc = "done" /\ res.outcome = "failed")
        => res.alerts = 1

\* what exportThaiPDFWithImages draws on the content pages of doc when it
\* runs alone, from the state c of the call on
RECURSIVE SoloDraws(_, _, _)
SoloDraws(c, counter, doc) ==
    IF c.pc = "done" THEN c.draws
    ELSE LET r == ImageResume(c, counter, doc)
         IN  SoloDraws(r.call, r.counter, doc)

DrawsAlone(doc) == SoloDraws([ConcIdle EXCEPT !.pc = "awaitAuthor"], 1, doc)

\* C18: two calls of exportThaiPDFWithImages interleaved at their awaits do
\* not observe each other's counter or cursor: what a call has drawn (scene
\* numbers, pages, positions) is at any time a prefix of what it draws when
\* it runs alone, and all of it once the call is over.
C18_CallsAreIsolated ==
    res.fn = "exportThaiPDFWithImages" =>
        \A p \in {1, 2} :
            LET mine  == res.calls[p].draws
                alone == DrawsAlone(arg[p])
            IN  /\ Len(mine) <= Len(alone)
                /\ mine = SubSeq(alone, 1, Len(mine))
                /\ res.calls[p].pc = "done" => mine = alone

\* the two calls are in their loops at the same time: each has drawn its
\* first scene heading with number 1 and awaits, with a second scene
\* heading still to draw
C18_Witness ==
    /\ res.fn = "exportThaiPDFWithImages"
    /\ \A p \in {1, 2} :
          /\ res.calls[p].pc = "awaitLine"
          /\ Len(res.calls[p].draws) = 1
          /\ res.calls[p].draws[1].num = <<1>>
          /\ Len(arg[p]) = 2
          /\ arg[p][2].type = "scene-heading"

\* the input blocks a log of calls has laid out: the block of each call and,
\* for a combined block, the dialogue that follows it
LaidOut(out) ==
    {out[k].at : k \in 1..Len(out)}
        \cup {out[k].at + 1 : k \in MergedCalls(out)}

\* C19: for every block sequence - the eight block types, an unknown type,
\* empty and whitespace-only content - exportToEnhancedStandardPDF does not
\* raise, and once it is over it has laid out every block.
C19_EnhancedNeverRaises ==
    /\ phase # "raised"
    /\ phase \in {"flow", "done"} => LaidOut(enhOut) = 1..Len(blocks)

\* the enhanced export is over on three blocks of empty and whitespace-only
\* content that end with an unknown type and a parenthetical
C19_Witness ==
    /\ phase = "flow"
    /\ Len(blocks) = 3
    /\ blocks[1].content = <<>>
    /\ blocks[2].content = <<" ">>
    /\ blocks[2].type = "unknown"
    /\ blocks[3].type = "parenthetical"
    /\ Len(enhOut) = 3

\* the draw of line k of a renderStandardBlock call
LineDraw(c, k) ==
    c.draws[CHOOSE n \in LinesOf(c) : c.draws[n].idx = k]

\* the cursor and the page just before line k of the call is handled: the
\* ones the block was entered with, or those left by line k - 1
CursorBefore(c, k) ==
    IF k = 1 THEN [y |-> c.y0, page |-> c.page0]
    ELSE [y |-> LineDraw(c, k - 1).y + c.lineHeight, page |-> LineDraw(c, k - 1).page]

\* C20: in renderStandardBlock the page-break check is made per line: just
\* before a line is drawn a new page is started if and only if
\* y + lineHeight > PAGE_HEIGHT - MARGIN_BOTTOM, the line that triggered the
\* break is drawn at y = MARGIN_TOP on the new page, and a block whose lines
\* do not all fit on the page it starts on ends on a later page.
C20_PageBreakPerLine ==
    /\ \A k \in 1..call.nLines :
          LET before == CursorBefore(call, k)
              d      == LineDraw(call, k)
          IN  IF before.y + call.lineHeight > PAGE_HEIGHT - MARGIN_BOTTOM
              THEN d.page = before.page + 1 /\ d.y = MARGIN_TOP
              ELSE d.page = before.page /\ d.y = before.y
    /\ (/\ call.nLines >= 1
        /\ call.y0 + call.nLines * call.lineHeight > PAGE_HEIGHT - MARGIN_BOTTOM)
            => call.page >= call.page0 + 1

\* a block of 48 lines entered below the top margin: one of its lines after
\* the first triggered the break and is drawn at the top margin of the next
\* page, the line before it being on the page the block started on
C20_Witness ==
    /\ call.nLines = 48
    /\ call.y0 > MARGIN_TOP
    /\ \E k \in 2..call.nLines :
          /\ LineDraw(call, k - 1).page = call.page0
          /\ LineDraw(call, k).page = call.page0 + 1
          /\ LineDraw(call, k).y = MARGIN_TOP
    /\ call.page = call.page0 + 1

\* C21: in exportToStandardPDF a block whose content is empty or
\* whitespace-only and wraps to zero lines draws nothing - no line and no
\* number label - and leaves the cursor y unchanged.
C21_BlankBlockDrawsNothing ==
    (call.type # "none" /\ Trim(call.text) = <<>> /\ call.nLines = 0)
        => (call.draws = <<>> /\ call.y = call.y0)

\* the positions (page, y) of the text lines drawn so far, in drawing order
RECURSIVE LinePositions(_)
LinePositions(out) ==
    IF out = <<>> THEN <<>>
    ELSE LinePositions(SubSeq(out, 1, Len(out) - 1))
         \o [k \in 1..out[Len(out)].nLines |->
                [page |-> LineDraw(out[Len(out)], k).page,
                 y |-> LineDraw(out[Len(out)], k).y]]

\* C22: in exportToStandardPDF the text lines are drawn in strictly
\* increasing (page, y) order over the whole block sequence: each line is
\* on a later page than the line drawn before it, or on the same page at a
\* strictly greater y.
C22_LinesInIncreasingOrder ==
    LET pos == LinePositions(stdOut)
    IN  \A k \in 2..Len(pos) :
            \/ pos[k].page > pos[k - 1].page
            \/ pos[k].page = pos[k - 1].page /\ pos[k].y > pos[k - 1].y

\* two blocks have been rendered: one of 48 lines that runs over the page
\* and then one of one line, drawn below it on the new page
C22_Witness ==
    /\ Len(stdOut) = 2
    /\ stdOut[1].nLines = 48
    /\ stdOut[1].page > stdOut[1].page0
    /\ stdOut[2].nLines = 1
    /\ stdOut[2].page0 = stdOut[1].page

\* C23: in useEnhancedSelection, after any sequence of copy, cut and paste
\* operations (pasting the same clipboard more than once included), all
\* block ids in the document are pairwise distinct.
C23_DocumentIdsDistinct ==
    res.fn = "useEnhancedSelection" =>
        \A j, k \in 1..Len(res.doc) :
            j # k => res.heap[res.doc[j]].id # res.heap[res.doc[k]].id

\* C27: the block list handed to addToHistory before a paste is a faithful
\* snapshot: after the paste, in every paste mode, 'inside' included, every
\* block of that list still has the content it had when it was handed over.
C27_HistorySnapshotFaithful ==
    res.fn = "useEnhancedSelection" =>
        \A h \in 1..Len(res.history) :
            \A k \in 1..Len(res.history[h].blocks) :
                res.heap[res.history[h].blocks[k]].content
                    = res.history[h].was[k]

\* C28: in useSceneHeadingKeyboardController the processing lock set when
\* an Enter key event is handled is always eventually released, for every
\* suggestions list and every selectedIndex, an index without a suggestion
\* included.
C28_LockEventuallyReleased ==
    (res.fn = "useSceneHeadingKeyboardController" /\ res.processing)
        ~> ~res.processing

\* the dismissal of the current notification has begun: its 3-second timer
\* has fired or it was clicked, and its exit delay is running
OwnDismissalBegun ==
    \E t \in res.timers : t.kind = "exit" /\ t.id = res.notification

\* C29: in ClipboardNotification a notification that arrives while the one
\* before it is in its 300 ms exit delay stays visible until its own
\* dismissal: no timer started for an earlier notification hides it.
C29_LaterNotificationStaysVisible ==
    (res.fn = "ClipboardNotification" /\ res.notification # 0
        /\ ~OwnDismissalBegun) => res.isVisible

\* C25: in the sharp exportToPDF and in the fallback path of the
\* canvas-first exportToPDF every content page receives at least one text
\* line: once a block has been laid out no content page is blank, also
\* after a block with more lines than fit on one page.
C25_NoBlankContentPage ==
    (res.fn = "exportToPDF" /\ res.done > 0)
        => \A p \in 1..Len(res.drawn) : res.drawn[p] > 0

\* C26: when two exportThaiPDFWithImages calls overlap and one of them
\* fails, the error handler of the failing call removes only the loading
\* indicator that call created: the indicator of a call stays attached
\* until that call itself is over.
C26_OwnIndicatorStaysAttached ==
    res.fn = "exportThaiPDFWithImages" =>
        \A p \in {1, 2} :
            res.calls[p].pc \in {"awaitTitle", "awaitAuthor", "awaitLine"}
                => \E k \in 1..Len(res.body) : res.body[k] = p

\* C24: in renderStandardBlock every line is drawn in the font family in
\* which the text of the block was measured when it was wrapped: the family
\* splitThaiTextToSize sets for the whole text is the family addThaiText
\* sets for each wrapped line, mixed Thai and English blocks included.
C24_DrawnInMeasuredFamily ==
    res.fn = "renderStandardBlock fonts" =>
        \A k \in 1..Len(res.drawn) : res.drawn[k] = res.measured

\* C30: the fallback word-wrap path of the sharp splitThaiTextToSize
\* terminates for every text and every maxWidth, maxWidth <= 0 and tokens
\* that can never fit included: every iteration of the hard-split loop
\* strictly shortens the remaining token, the function returns, and the
\* list it returns is finite (it has at most as many lines as the text has
\* characters).
C30_FallbackTerminates ==
    /\ [][(res.fn = "splitThaiTextToSize" /\ res.pc = "hard" /\ res'.pc = "hard")
            => Len(res'.currentLine) < Len(res.currentLine)]_vars
    /\ [](res.fn = "splitThaiTextToSize" /\ res.pc = "done"
            => Len(res.lines) <= Len(arg.text))
    /\ <>(res.fn = "splitThaiTextToSize" /\ res.pc = "done")

\* the function has returned on a single token that can never fit,
\* maxWidth being zero or negative, after the hard-split loop ran twice on
\* it: the two pieces cut off and the last character are the lines
C30_Witness ==
    /\ res.fn = "splitThaiTextToSize"
    /\ res.pc = "done"
    /\ arg.maxWidth <= 0
    /\ \A k \in 1..Len(arg.text) : ~IsSpace(arg.text[k])
    /\ res.hardSteps = 2
    /\ Len(res.lines) = 3
============================================================================
